---- MODULE Spec2Model ----
(***************************************************************************)
(* ProjectANNAX: the serial link protocol (MatrixController) and the       *)
(* display server (MatrixServer: control loop thread + network thread).    *)
(*                                                                         *)
(* Python values are encoded so that every comparison the code makes is    *)
(* defined: a Config value is a record tagged "str" or "int", and every    *)
(* None has an encoding of the type stored in its place.                   *)
(***************************************************************************)
EXTENDS Integers, Sequences, FiniteSets, TLC

VARIABLES
  \* ---- MatrixController (serial link) --------------------------------
  max_tries,        \* self.max_tries
  datagram,         \* argument of the running send_raw_datagram call
  num_tries,        \* local num_tries
  success,          \* local success
  response,         \* local response (Unbound before the first read)
  lpc,              \* position in send_raw_datagram
  raised,           \* MatrixError.code raised by the call, or NoError
  writes,           \* port.write calls made by the running call
  reads,            \* port.read calls made by the running call
  acked,            \* a 0xFF has been read by the running call
  timedOut,         \* some read of the running call returned no byte
  unacked,          \* datagrams written to the port and not yet answered
  \* ---- MatrixServer shared state -------------------------------------
  CURRENT_BITMAP,
  bitmap_ref,       \* the list object each CURRENT_BITMAP entry refers to
  CURRENT_MESSAGE,
  CURRENT_CONFIG,
  UPDATE_DATA,
  running,
  dtr_rts,          \* the two select lines of the port: <<DTR, RTS>>
  \* ---- control_loop locals -------------------------------------------
  pc,               \* position of the control thread
  display,          \* loop variable of enumerate(CURRENT_MESSAGE)
  message,          \* loop variable: the Message object read at line 242
  now,              \* local now
  kidx,             \* position of the iterator over config_keys_changed
  actual_message,
  sequence_needs_switching,
  time_string_cur_result,
  todo,             \* ConfigOverrideSync: set_config calls still to make
  \* ---- network thread ------------------------------------------------
  gpc,              \* position of the network thread in process_message
  request,          \* the request being processed
  gpos,             \* position in request.displays
  gkey,             \* position in the keys of request.message (control)
  reply,            \* last reply sent
  budget,           \* requests the clients may still send
  next_oid,         \* identity given to the next received Message object
  conn,             \* the connection accepted last (local conn, addr)
  client,           \* a caller of the library outside the server (a
                    \* MatrixClient building a sequence message): the
                    \* arguments it passes and the outcome of the call
  \* ---- environment and history ----------------------------------------
  clock,            \* time.time()
  tick_log,         \* link transactions started in the current tick
  processed,        \* panels whose loop body was entered in the current tick
  due,              \* panels that had a redraw due when their turn began
  sync_from         \* the overrides in effect when ConfigOverrideSync began
                    \* in this pass of the loop body (NoSync: it has not)

linkVars == <<max_tries, datagram, num_tries, success, response, lpc, raised,
              writes, reads, acked, timedOut, unacked>>
stateVars == <<CURRENT_BITMAP, bitmap_ref, CURRENT_MESSAGE, CURRENT_CONFIG,
               UPDATE_DATA, running, dtr_rts>>
loopVars == <<pc, display, message, now, kidx, actual_message,
              sequence_needs_switching, time_string_cur_result, todo>>
netVars == <<gpc, request, gpos, gkey, reply, budget, next_oid, conn, client,
            client>>
histVars == <<clock, tick_log, processed, due, sync_from>>
vars == <<linkVars, stateVars, loopVars, netVars, histVars>>

----------------------------------------------------------------------------
(* Bounds of the model *)

\* largest max_tries a controller is constructed with in LinkSpec
MaxMaxTries == 3

(* Program constants *)

ACK == 255
ErrBase == 224
\* response = -1: port.read(1) returned no byte within the timeout
TIMEOUT == -1
\* response before the first read: the local is not bound yet
Unbound == -2
NoError == -1000

Bytes == 0..255

----------------------------------------------------------------------------
(* MatrixError.__init__(response = response): the error code *)

\* "if response:" is false for the byte 0x00, which therefore maps to -1
MatrixErrorCode(resp) == IF resp # 0 THEN resp - ErrBase ELSE -1

(* send_raw_datagram: "while num_tries < self.max_tries and not success" *)

\* off by one: one attempt too many
LoopCond_le(n, m, s) == n <= m /\ ~s

LoopCond(n, m, s) == n < m /\ ~s

\* the call starts: num_tries = 0, success = False
send_raw_datagram(dg) ==
  /\ datagram' = dg
  /\ num_tries' = 0
  /\ success' = FALSE
  /\ response' = Unbound
  /\ raised' = NoError
  /\ writes' = 0
  /\ reads' = 0
  /\ acked' = FALSE
  /\ timedOut' = FALSE
  /\ lpc' = "loop"
  /\ UNCHANGED <<max_tries, unacked>>

\* one pass of the inner "while pos < len(datagram)": chunk_size = 9999999,
\* so a datagram goes out in one port.write (none for an empty datagram)
LinkWrite ==
  /\ lpc = "loop"
  /\ LoopCond(num_tries, max_tries, success)
  /\ writes' = writes + (IF Len(datagram) > 0 THEN 1 ELSE 0)
  /\ unacked' = unacked + (IF Len(datagram) > 0 THEN 1 ELSE 0)
  /\ lpc' = "read"
  /\ UNCHANGED <<max_tries, datagram, num_tries, success, response, raised,
                 reads, acked, timedOut>>

\* the read of the older revision (matrix_controller.py line 82): the answer
\* is taken to be 0xFF and the port is not read
LinkRead_stub(answers) ==
  /\ lpc = "read"
  /\ response' = ACK
  /\ success' = TRUE
  /\ acked' = TRUE
  /\ num_tries' = num_tries + 1
  /\ lpc' = "loop"
  /\ UNCHANGED <<max_tries, datagram, raised, writes, reads, timedOut,
                 unacked>>

\* response = self.port.read(1): a byte of the device, or nothing (timeout)
LinkRead(answers) ==
  /\ lpc = "read"
  /\ \E r \in answers :
       /\ response' = r
       /\ success' = (r = ACK)
       /\ acked' = (acked \/ r = ACK)
       /\ timedOut' = (timedOut \/ r = TIMEOUT)
  /\ reads' = reads + 1
  /\ unacked' = IF unacked > 0 THEN unacked - 1 ELSE 0
  /\ num_tries' = num_tries + 1
  /\ lpc' = "loop"
  /\ UNCHANGED <<max_tries, datagram, raised, writes>>

\* the loop ends: "if not success: raise MatrixError(response = response)"
LinkExit ==
  /\ lpc = "loop"
  /\ ~LoopCond(num_tries, max_tries, success)
  /\ raised' = IF success THEN NoError ELSE MatrixErrorCode(response)
  /\ lpc' = "ret"
  /\ UNCHANGED <<max_tries, datagram, num_tries, success, response, writes,
                 reads, acked, timedOut, unacked>>


----------------------------------------------------------------------------
(* Python values *)

PyStr(s) == [t |-> "str", s |-> s, n |-> 0]
PyInt(n) == [t |-> "int", s |-> "", n |-> n]

\* None where an int is stored (sequence_cur_pos, sequence_last_switched)
NoneInt == -1
\* None where a bitmap is stored (CURRENT_BITMAP): no grid; a stored grid
\* always has a first row, because align_long_bitmap reads long_bitmap[0]
NoneBitmap == <<>>
\* None where a time string is stored (a string is a sequence of character
\* codes, none of them negative)
NoneString == <<NoneInt>>

Min(a, b) == IF a < b THEN a ELSE b
Max(a, b) == IF a > b THEN a ELSE b

Zeros(n) == [i \in 1..Max(n, 0) |-> 0]

\* Python's row[a:b] for 0 <= a, b (0-based, end exclusive)
Slice(row, a, b) ==
  LET lo == Min(a, Len(row))
      hi == Min(b, Len(row))
  IN  IF hi <= lo THEN <<>> ELSE [i \in 1..(hi - lo) |-> row[lo + i]]

\* Python's row[:-k] for k >= 0 (row[:-0] is row[:0], the empty list)
DropLast(row, k) == IF k = 0 THEN <<>> ELSE Slice(row, 0, Len(row) - k)

\* Python's row[-k:] for k > 0
TakeLast(row, k) == Slice(row, Max(Len(row) - k, 0), Len(row))

----------------------------------------------------------------------------
(* MatrixGraphics *)

\* self.controller.num_blocks (default of MatrixController.__init__)
num_blocks == 15

\* line 240: the zero columns center alignment appends to a narrower row
CenterRightPad_even(d, bitmap_width) == d \div 2
CenterRightPad(d, bitmap_width) == (d \div 2) + (bitmap_width % 2)

\* align_long_bitmap(long_bitmap, align), target_width = num_blocks * 8.
\* int(x / 2) is x \div 2 for x >= 0.  The caller guarantees a first row.
align_long_bitmap(long_bitmap, align, target_width) ==
  LET bitmap_width == Len(long_bitmap[1])
      d == target_width - bitmap_width
      half == target_width \div 2
  IN  IF bitmap_width = target_width THEN long_bitmap
      ELSE IF bitmap_width < target_width
      THEN CASE align = "left" ->
                  [i \in 1..Len(long_bitmap) |-> long_bitmap[i] \o Zeros(d)]
             [] align = "center" ->
                  [i \in 1..Len(long_bitmap) |->
                     Zeros(d \div 2) \o long_bitmap[i]
                       \o Zeros(CenterRightPad(d, bitmap_width))]
             [] align = "right" ->
                  [i \in 1..Len(long_bitmap) |-> Zeros(d) \o long_bitmap[i]]
             [] OTHER -> long_bitmap
      ELSE CASE align = "left" ->
                  [i \in 1..Len(long_bitmap) |->
                     Slice(long_bitmap[i], 0, target_width)]
             [] align = "center" ->
                  [i \in 1..Len(long_bitmap) |->
                     DropLast(Slice(long_bitmap[i], half, Len(long_bitmap[i])),
                              half - (bitmap_width % 2))]
             [] align = "right" ->
                  [i \in 1..Len(long_bitmap) |->
                     TakeLast(long_bitmap[i], target_width)]
             [] OTHER -> long_bitmap

\* int(chunk, 2) with the first pixel as the least significant bit
RECURSIVE ChunkValue_lsb(_, _)
ChunkValue_lsb(chunk, k) ==
  IF k = 0 THEN 0
  ELSE ChunkValue_lsb(chunk, k - 1)
         + (IF k <= Len(chunk) THEN chunk[k] * 2 ^ (k - 1) ELSE 0)

\* int(chunk.ljust(8, "0"), 2): the chunk's pixels, most significant first,
\* a short chunk padded with zero bits on the right
RECURSIVE ChunkValue(_, _)
ChunkValue(chunk, k) ==
  IF k = 0 THEN 0
  ELSE 2 * ChunkValue(chunk, k - 1) + (IF k <= Len(chunk) THEN chunk[k] ELSE 0)

\* a short_row that keeps the first chunk only
ShortRow_first(row) == <<ChunkValue(Slice(row, 0, 8), 8)>>

\* the short_row of one row: one byte per chunk of 8 pixels
ShortRow(row) ==
  [x \in 1..((Len(row) + 7) \div 8) |->
     ChunkValue(Slice(row, 8 * (x - 1), 8 * x), 8)]

\* long_bitmap_to_short_bitmap with one block per pixel column
long_bitmap_to_short_bitmap_percolumn(long_bitmap) ==
  [x \in 1..Len(long_bitmap[1]) |->
     [y \in 1..Len(long_bitmap) |-> long_bitmap[y][x]]]

\* long_bitmap_to_short_bitmap: block x holds byte x of every row.  The
\* grids of the model are rectangular (a ragged grid raises IndexError).
long_bitmap_to_short_bitmap(long_bitmap) ==
  [x \in 1..Len(ShortRow(long_bitmap[1])) |->
     [y \in 1..Len(long_bitmap) |-> ShortRow(long_bitmap[y])[x]]]

\* blend_long_bitmaps(bitmap1, bitmap2) for two grids of equal height
blend_long_bitmaps(bitmap1, bitmap2) ==
  LET base == IF Len(bitmap1[1]) >= Len(bitmap2[1]) THEN bitmap1 ELSE bitmap2
      top == IF Len(bitmap1[1]) >= Len(bitmap2[1]) THEN bitmap2 ELSE bitmap1
  IN  [y \in 1..Len(base) |->
         [x \in 1..Len(base[1]) |->
            IF x <= Len(top[1])
            THEN (IF base[y][x] # 0 THEN base[y][x] ELSE top[y][x])
            ELSE base[y][x]]]


\* _prepare_text + image_to_long_bitmap: the external rasterizer, reduced to
\* "a text gives a pixel grid 8 rows high".  A text is a sequence of
\* character codes; row 1 spells its length in unary and row 2 the bits of
\* its last character, so the texts of the model give different grids.
build_text_image(text) ==
  [y \in 1..8 |->
     [x \in 1..8 |->
        IF y = 1 THEN (IF x <= Len(text) THEN 1 ELSE 0)
        ELSE IF y = 2 /\ Len(text) > 0
        THEN (text[Len(text)] \div (2 ^ (8 - x))) % 2
        ELSE 0]]

\* align_image: paste the image into a black image of the panel's width
align_image(image, align, target_width) ==
  LET w == Len(image[1])
      off == CASE align = "left" -> 0
               [] align = "center" ->
                    IF target_width >= w THEN (target_width - w) \div 2
                    ELSE 0 - ((w - target_width) \div 2)
               [] align = "right" -> target_width - w
               [] OTHER -> 0
  IN  IF align \in {"left", "center", "right"}
      THEN [y \in 1..8 |->
              [x \in 1..target_width |->
                 IF y <= Len(image) /\ x - off >= 1 /\ x - off <= w
                 THEN image[y][x - off] ELSE 0]]
      ELSE image

\* build_text(text, font, size, align)
build_text(text, align, target_width) ==
  align_image(build_text_image(text), align, target_width)

----------------------------------------------------------------------------
(* MatrixController: the parameter setters and the two datagram builders   *)
(* the server calls (python/matrix_controller.py, which transmits at once) *)

ConfigKeys == {"display_mode", "scroll_speed", "scroll_direction",
               "scroll_mode", "scroll_gap", "power_state", "blink_frequency",
               "stop_indicator", "scroll_step",
               "stop_indicator_blink_frequency"}

\* iteration order of a dict holding these keys
KeyOrder == <<"display_mode", "scroll_speed", "scroll_direction",
              "scroll_mode", "scroll_gap", "power_state", "blink_frequency",
              "stop_indicator", "scroll_step",
              "stop_indicator_blink_frequency">>

\* the code each set_<key> passes to set_parameter
ParameterCode(key) ==
  CASE key = "display_mode" -> 1
    [] key = "scroll_speed" -> 2
    [] key = "scroll_direction" -> 3
    [] key = "scroll_mode" -> 4
    [] key = "scroll_gap" -> 5
    [] key = "power_state" -> 6
    [] key = "blink_frequency" -> 7
    [] key = "stop_indicator" -> 8
    [] key = "scroll_step" -> 9
    [] key = "stop_indicator_blink_frequency" -> 10

\* the tuple a setter looks a symbolic name up in (empty: no lookup)
SymbolicNames(key) ==
  CASE key = "display_mode" -> <<"static", "scroll", "auto">>
    [] key = "scroll_direction" -> <<"left", "right">>
    [] key = "scroll_mode" ->
         <<"repeat-on-end", "repeat-on-disappearance", "repeat-after-gap">>
    [] key = "power_state" -> <<"off", "on">>
    [] key = "stop_indicator" -> <<"off", "on">>
    [] OTHER -> <<>>

\* the setter or set_parameter raised (ValueError, TypeError, AssertionError)
BadValue == -1

\* the same in annax/matrix_controller.py: set_power_state and
\* set_stop_indicator convert a bool and look no name up
AnnaxNames(key) ==
  IF key \in {"power_state", "stop_indicator"} THEN <<>>
  ELSE SymbolicNames(key)

\* a setter that looks the names up, followed by set_parameter's
\* assertions: the value byte, or BadValue when the call raises (ValueError
\* of index, TypeError of comparing a str, AssertionError) before anything
\* is transmitted
SetterValue(names, key, value) ==
  LET v == IF value.t = "int" THEN value.n
           ELSE IF \E i \in 1..Len(names) : names[i] = value.s
           THEN (CHOOSE i \in 1..Len(names) : names[i] = value.s) - 1
           ELSE BadValue
  IN  IF key \in ConfigKeys /\ v >= 0 /\ v <= 255 THEN v ELSE BadValue

\* set_<key>(value) of python/matrix_controller.py
SetterByte(key, value) == SetterValue(SymbolicNames(key), key, value)

\* set_<key>(value) of python/annax/matrix_controller.py
AnnaxSetterByte(key, value) == SetterValue(AnnaxNames(key), key, value)

RECURSIVE Flatten(_)
Flatten(blocks) ==
  IF blocks = <<>> THEN <<>> ELSE Head(blocks) \o Flatten(Tail(blocks))

\* the asserts of set_parameter with the code 0 let through
Accepted_zero(code, value) == code \in 0..15 /\ value \in 0..255

\* set_parameter: assert 0x01 <= code <= 0x0F, assert 0x00 <= value <= 0xFF
Accepted(code, value) == code \in 1..15 /\ value \in 0..255

\* annax/matrix_controller.py set_parameter(code, value): the message that
\* is appended to pending_messages
parameter_message(code, value) == <<160 + code, value>>

\* annax/matrix_controller.py send_bitmap(bitmap): the message that is
\* appended to pending_messages
bitmap_message(bitmap) == <<160, Len(bitmap)>> \o Flatten(bitmap)

\* commit with the messages in reverse order
commit_datagram_reversed(pending) ==
  <<255, Len(pending)>>
    \o Flatten([i \in 1..Len(pending) |-> pending[Len(pending) + 1 - i]])

\* commit lines 102-107: 0xFF, the number of messages, the messages
commit_datagram(pending) == <<255, Len(pending)>> \o Flatten(pending)

\* set_parameter(code, value): the datagram
set_parameter(code, value) == <<255, 160 + code, 204, value>>

\* send_bitmap(bitmap): the datagram of a short bitmap
send_bitmap(bitmap) == <<255, 160, 204, Len(bitmap), 204>> \o Flatten(bitmap)

----------------------------------------------------------------------------
(* MatrixServer: the state *)

\* panels of the model; the server has four (CURRENT_MESSAGE has 4 entries)
NumPanels == 2
Panels == 0..(NumPanels - 1)

DefaultConfig ==
  [key \in ConfigKeys |->
     CASE key = "display_mode" -> PyStr("static")
       [] key = "scroll_speed" -> PyInt(1)
       [] key = "scroll_direction" -> PyStr("left")
       [] key = "scroll_mode" -> PyStr("repeat-on-disappearance")
       [] key = "scroll_gap" -> PyInt(5)
       [] key = "power_state" -> PyStr("off")
       [] key = "blink_frequency" -> PyInt(0)
       [] key = "stop_indicator" -> PyStr("off")
       [] key = "scroll_step" -> PyInt(1)
       [] key = "stop_indicator_blink_frequency" -> PyInt(0)]

DefaultUpdateData ==
  [config_keys_changed |-> <<>>,
   config_specific |-> [key \in {} |-> PyInt(0)],
   message_changed |-> FALSE,
   sequence_cur_pos |-> NoneInt,
   sequence_last_switched |-> NoneInt,
   time_string_last_result |-> NoneString]

NoConfig == [key \in {} |-> PyInt(0)]

\* message['data'] of a bitmap or text message (absent entries at the
\* defaults .get() gives them)
BitmapData(bitmap, align, blend) ==
  [bitmap |-> bitmap, align |-> align, blend_bitmap |-> blend,
   text |-> <<>>, parse_time_string |-> FALSE]
TextData(text, align, blend, pts) ==
  [bitmap |-> NoneBitmap, align |-> align, blend_bitmap |-> blend,
   text |-> text, parse_time_string |-> pts]
NoData == BitmapData(NoneBitmap, "None", FALSE)

\* a Message object; oid is the identity of the Python object, items the
\* 'data' list of a sequence, duration NoneInt when the key is absent
Msg(type, data, items, config, duration) ==
  [type |-> type, data |-> data, items |-> items, config |-> config,
   duration |-> duration, oid |-> 0]
NoneMsg == Msg("none", NoData, <<>>, NoConfig, NoneInt)
BitmapMsg(bitmap, align, blend, config, duration) ==
  Msg("bitmap", BitmapData(bitmap, align, blend), <<>>, config, duration)
TextMsg(text, align, blend, pts, config, duration) ==
  Msg("text", TextData(text, align, blend, pts), <<>>, config, duration)
SequenceMsg(items) == Msg("sequence", NoData, items, NoConfig, NoneInt)

\* the message as the client sent it: its content without the identity
Content(m) == [m EXCEPT !.oid = 0]

\* datetime.datetime.now().strftime(fmt) at time t, for formats whose only
\* directive is the seconds' last digit, written "%" (code 37) here: every
\* directive is replaced by the digit, every other character is kept
Percent == 37
strftime(fmt, t) ==
  [i \in 1..Len(fmt) |-> IF fmt[i] = Percent THEN 48 + (t % 10) ELSE fmt[i]]


----------------------------------------------------------------------------
(* MatrixServer: the control thread (control_loop, set_config, set_bitmap) *)

\* the caller of send_raw_datagram has its result: the frame is gone
link_return ==
  /\ datagram' = <<>>
  /\ num_tries' = 0
  /\ success' = FALSE
  /\ response' = Unbound
  /\ raised' = NoError
  /\ writes' = 0
  /\ reads' = 0
  /\ acked' = FALSE
  /\ timedOut' = FALSE
  /\ lpc' = "idle"
  /\ UNCHANGED <<max_tries, unacked>>

\* select_display without effect: the lines stay as they are
select_display_stale(d) == dtr_rts

\* select_display(display): the lines <<DTR, RTS>> (unchanged for another index)
select_display(d) ==
  CASE d = 0 -> <<0, 0>>
    [] d = 1 -> <<0, 1>>
    [] d = 2 -> <<1, 0>>
    [] d = 3 -> <<1, 1>>
    [] OTHER -> dtr_rts

LogParam(d, key, byte) ==
  [display |-> d, kind |-> "param", key |-> key, value |-> byte, blocks |-> 0]
LogBitmap(d, short) ==
  [display |-> d, kind |-> "bitmap", key |-> "", value |-> 0,
   blocks |-> Len(short)]

UD == UPDATE_DATA[display]

NoSync == [key \in {"-"} |-> PyInt(0)]

\* the locals of one pass of the for loop, as they are before line 243
ClearLocals ==
  /\ message' = NoneMsg
  /\ now' = 0
  /\ kidx' = 1
  /\ actual_message' = NoneMsg
  /\ sequence_needs_switching' = FALSE
  /\ time_string_cur_result' = NoneString
  /\ todo' = <<>>
  /\ sync_from' = NoSync

\* "continue" / the end of the loop body: the next panel, or line 335
NextPanel ==
  /\ IF display < NumPanels - 1
     THEN display' = display + 1 /\ pc' = "fetch"
     ELSE display' = display /\ pc' = "sleep"
  /\ ClearLocals

\* line 249: does applying this key force a redraw
ForcesRedraw(key, value) == key = "power_state" /\ value = PyStr("on")

\* line 253: is the panel skipped
IsIdle(msg, power_state) == msg.type = "none" \/ power_state = PyStr("off")

\* the panel is on, has a Message and the Message is marked changed
RedrawDue(d) ==
  /\ CURRENT_MESSAGE[d].type # "none"
  /\ CURRENT_CONFIG[d]["power_state"] = PyStr("on")
  /\ UPDATE_DATA[d].message_changed

\* lines 242-245: the loop takes the next (display, message) and the time
Fetch ==
  /\ pc = "fetch"
  /\ message' = CURRENT_MESSAGE[display]
  /\ now' = clock
  /\ kidx' = 1
  /\ processed' = processed \cup {display}
  /\ due' = IF RedrawDue(display) THEN due \cup {display} ELSE due
  /\ pc' = "cfg"
  /\ UNCHANGED <<display, actual_message, sequence_needs_switching,
                 time_string_cur_result, todo>>
  /\ UNCHANGED <<linkVars, stateVars, netVars, clock, tick_log, sync_from>>

\* lines 247-248: the iterator gives the next pending key and set_config
\* selects the panel and calls the setter
CfgCall ==
  /\ pc = "cfg"
  /\ lpc = "idle"
  /\ kidx <= Len(UD.config_keys_changed)
  /\ LET key == UD.config_keys_changed[kidx]
         value == CURRENT_CONFIG[display][key]
         byte == SetterByte(key, value)
     IN  /\ dtr_rts' = select_display(display)
         /\ IF byte = BadValue
            THEN \* the setter raised, set_config returned False: line 249
                 /\ UPDATE_DATA' =
                      [UPDATE_DATA EXCEPT ![display].message_changed =
                         @ \/ ForcesRedraw(key, value)]
                 /\ kidx' = kidx + 1
                 /\ pc' = "cfg"
                 /\ UNCHANGED <<linkVars, tick_log>>
            ELSE /\ send_raw_datagram(set_parameter(ParameterCode(key), byte))
                 /\ tick_log' = Append(tick_log, LogParam(display, key, byte))
                 /\ pc' = "cfg_wait"
                 /\ UNCHANGED <<UPDATE_DATA, kidx>>
  /\ UNCHANGED <<CURRENT_BITMAP, bitmap_ref, CURRENT_MESSAGE, CURRENT_CONFIG, running>>
  /\ UNCHANGED <<display, message, now, actual_message,
                 sequence_needs_switching, time_string_cur_result, todo>>
  /\ UNCHANGED <<netVars, clock, processed, due, sync_from>>

\* set_config returns (a MatrixError is caught inside it); lines 249-250
CfgRet ==
  /\ pc = "cfg_wait"
  /\ lpc = "ret"
  /\ LET key == UD.config_keys_changed[kidx]
     IN  UPDATE_DATA' =
           [UPDATE_DATA EXCEPT ![display].message_changed =
              @ \/ ForcesRedraw(key, CURRENT_CONFIG[display][key])]
  /\ kidx' = kidx + 1
  /\ pc' = "cfg"
  /\ link_return
  /\ UNCHANGED <<CURRENT_BITMAP, bitmap_ref, CURRENT_MESSAGE, CURRENT_CONFIG, running,
                 dtr_rts>>
  /\ UNCHANGED <<display, message, now, actual_message,
                 sequence_needs_switching, time_string_cur_result, todo>>
  /\ UNCHANGED <<netVars, histVars>>

\* line 247: the iterator is exhausted
CfgEnd ==
  /\ pc = "cfg"
  /\ kidx > Len(UD.config_keys_changed)
  /\ pc' = "clear"
  /\ UNCHANGED <<display, message, now, kidx, actual_message,
                 sequence_needs_switching, time_string_cur_result, todo>>
  /\ UNCHANGED <<linkVars, stateVars, netVars, histVars>>

\* what line 251 leaves in config_keys_changed
ClearedKeys(keys, n) == <<>>

\* line 251: update_data['config_keys_changed'] = []
Clear ==
  /\ pc = "clear"
  /\ UPDATE_DATA' =
       [UPDATE_DATA EXCEPT ![display].config_keys_changed =
          ClearedKeys(@, kidx)]
  /\ pc' = "idle"
  /\ UNCHANGED <<CURRENT_BITMAP, bitmap_ref, CURRENT_MESSAGE, CURRENT_CONFIG, running,
                 dtr_rts>>
  /\ UNCHANGED <<display, message, now, kidx, actual_message,
                 sequence_needs_switching, time_string_cur_result, todo>>
  /\ UNCHANGED <<linkVars, netVars, histVars>>

\* lines 253-255
Idle ==
  /\ pc = "idle"
  /\ IF IsIdle(message, CURRENT_CONFIG[display]["power_state"])
     THEN NextPanel
     ELSE /\ pc' = "entry"
          /\ UNCHANGED <<display, message, now, kidx, actual_message,
                         sequence_needs_switching, time_string_cur_result,
                         todo, sync_from>>
  /\ UNCHANGED <<linkVars, stateVars, netVars, clock, tick_log, processed,
                 due>>


\* lines 282-285: the cursor after a switch
NextCursor_nowrap(pos, n) == IF pos = n THEN 0 ELSE pos + 1
NextCursor(pos, n) == IF pos = n - 1 THEN 0 ELSE pos + 1

\* MessageEntry that resets the cursor and keeps the old switch time
EntrySchedule_stale(ud, msg, t, wall) ==
  IF ~ud.message_changed THEN ud
  ELSE [ud EXCEPT !.sequence_cur_pos =
                     IF msg.type = "sequence" THEN 0 ELSE NoneInt,
                  !.time_string_last_result = NoneString]

\* lines 257-272 (MessageEntry): the schedule fields after them
EntrySchedule(ud, msg, t, wall) ==
  IF ~ud.message_changed THEN ud
  ELSE CASE msg.type = "sequence" ->
              [ud EXCEPT !.sequence_cur_pos = 0,
                         !.sequence_last_switched = t,
                         !.time_string_last_result = NoneString]
         [] msg.type = "text" ->
              [ud EXCEPT !.sequence_cur_pos = NoneInt,
                         !.sequence_last_switched = NoneInt,
                         !.time_string_last_result =
                            IF msg.data.parse_time_string
                            THEN strftime(msg.data.text, wall)
                            ELSE NoneString]
         [] msg.type = "bitmap" ->
              [ud EXCEPT !.sequence_cur_pos = NoneInt,
                         !.sequence_last_switched = NoneInt,
                         !.time_string_last_result = NoneString]
         [] OTHER -> ud

\* lines 275-276 raise: the cursor is None (TypeError) or past the end
\* (IndexError), the item has no 'duration' (KeyError)
SelectRaises(ud, msg) ==
  /\ msg.type = "sequence"
  /\ \/ ud.sequence_cur_pos = NoneInt
     \/ ud.sequence_cur_pos >= Len(msg.items)
     \/ ud.sequence_last_switched = NoneInt
     \/ msg.items[ud.sequence_cur_pos + 1].duration = NoneInt

\* lines 257-290: MessageEntry, the effective item, Advance, the time string
Entry ==
  /\ pc = "entry"
  /\ LET ud1 == EntrySchedule(UD, message, now, clock)
     IN  IF SelectRaises(ud1, message)
         THEN /\ UPDATE_DATA' = [UPDATE_DATA EXCEPT ![display] = ud1]
              /\ pc' = "except"
              /\ UNCHANGED <<actual_message, sequence_needs_switching,
                             time_string_cur_result>>
         ELSE LET seq == message.type = "sequence"
                  act0 == IF seq THEN message.items[ud1.sequence_cur_pos + 1]
                          ELSE message
                  sw == seq /\ now - ud1.sequence_last_switched >= act0.duration
                  pos2 == IF sw
                          THEN NextCursor(ud1.sequence_cur_pos, Len(message.items))
                          ELSE ud1.sequence_cur_pos
                  \* line 286 raises IndexError for a cursor past the end
                  bad == sw /\ pos2 >= Len(message.items)
                  act == IF sw /\ ~bad THEN message.items[pos2 + 1] ELSE act0
                  ud2 == IF sw
                         THEN [ud1 EXCEPT !.sequence_cur_pos = pos2,
                                          !.sequence_last_switched =
                                             IF bad THEN @ ELSE now]
                         ELSE ud1
              IN  /\ UPDATE_DATA' = [UPDATE_DATA EXCEPT ![display] = ud2]
                  /\ actual_message' = act
                  /\ sequence_needs_switching' = sw
                  /\ time_string_cur_result' =
                       IF act.type = "text" /\ act.data.parse_time_string
                       THEN strftime(act.data.text, clock)
                       ELSE time_string_cur_result
                  /\ pc' = IF bad THEN "except" ELSE "refresh"
  /\ UNCHANGED <<CURRENT_BITMAP, bitmap_ref, CURRENT_MESSAGE, CURRENT_CONFIG, running,
                 dtr_rts>>
  /\ UNCHANGED <<display, message, now, kidx, todo>>
  /\ UNCHANGED <<linkVars, netVars, histVars>>

\* lines 292-295
NeedsRefresh(ud, act, sw, tcur) ==
  \/ ud.message_changed
  \/ (act.data.parse_time_string /\ tcur # ud.time_string_last_result)
  \/ sw

\* the list object a stored Bitmap refers to: the bitmap of the Message
\* object oid (of its item pos, for a Sequence), or a list of its own
\* (None, the list blend_long_bitmaps or build_text has made)
NoRef == <<0, NoneInt>>
ListOf(msg, pos) ==
  <<msg.oid, IF msg.type = "sequence" THEN pos ELSE NoneInt>>

\* align_long_bitmap changes the rows of the list it is given: the bitmap of
\* the Message object (of every panel holding that object) changes with it
AlignedInPlace(msgs, msg, pos, new) ==
  [q \in Panels |->
     IF msgs[q].type # "none" /\ msgs[q].oid = msg.oid
     THEN (IF msgs[q].type = "sequence"
           THEN [msgs[q] EXCEPT !.items[pos + 1].data.bitmap = new]
           ELSE [msgs[q] EXCEPT !.data.bitmap = new])
     ELSE msgs[q]]

\* blend_long_bitmaps raises: CURRENT_BITMAP is None (TypeError), or the
\* narrower grid has fewer rows than the wider one (IndexError)
BlendRaises(bitmap1, bitmap2) ==
  \/ bitmap1 = NoneBitmap
  \/ LET b1base == Len(bitmap1[1]) >= Len(bitmap2[1])
     IN  IF b1base THEN Len(bitmap2) < Len(bitmap1)
         ELSE Len(bitmap1) < Len(bitmap2)

\* lines 297-319 with set_bitmap (391-400): RedrawDecision and Render up to
\* the call of send_raw_datagram
Refresh ==
  /\ pc = "refresh"
  /\ LET act == actual_message
         target == num_blocks * 8
         isbm == act.type = "bitmap"
         pts == act.data.parse_time_string
         text == IF pts THEN time_string_cur_result ELSE act.data.text
         \* a bitmap message without a grid: long_bitmap[0] raises
         nogrid == isbm /\ act.data.bitmap = NoneBitmap
         new == IF isbm
                THEN (IF nogrid THEN NoneBitmap
                      ELSE align_long_bitmap(act.data.bitmap, act.data.align,
                                             target))
                ELSE build_text(text, act.data.align, target)
         \* the list align_long_bitmap was given and returns
         ref == ListOf(message, UD.sequence_cur_pos)
         \* every CURRENT_BITMAP entry that refers to that list shows the
         \* rows align_long_bitmap has given it
         stored == [q \in Panels |->
                      IF isbm /\ ~nogrid /\ bitmap_ref[q] = ref THEN new
                      ELSE CURRENT_BITMAP[q]]
         blend == act.data.blend_bitmap
         braises == ~nogrid /\ blend /\ BlendRaises(stored[display], new)
         result == IF blend /\ ~braises /\ ~nogrid
                   THEN blend_long_bitmaps(stored[display], new)
                   ELSE new
         short == long_bitmap_to_short_bitmap(result)
         ud1 == [UD EXCEPT !.time_string_last_result =
                   IF ~isbm /\ pts THEN time_string_cur_result
                   ELSE NoneString]
     IN  IF ~NeedsRefresh(UD, act, sequence_needs_switching,
                          time_string_cur_result)
         THEN \* line 321 is inside "if needs_refresh": straight to line 334
              /\ pc' = "done"
              /\ UNCHANGED <<linkVars, stateVars, tick_log>>
         ELSE /\ UPDATE_DATA' = [UPDATE_DATA EXCEPT ![display] = ud1]
              /\ CURRENT_MESSAGE' =
                   IF isbm /\ ~nogrid
                   THEN AlignedInPlace(CURRENT_MESSAGE, message,
                                       UD.sequence_cur_pos, new)
                   ELSE CURRENT_MESSAGE
              /\ IF nogrid \/ braises
                 THEN /\ pc' = "except"
                      /\ CURRENT_BITMAP' = stored
                      /\ UNCHANGED <<linkVars, bitmap_ref, dtr_rts, tick_log>>
                 ELSE /\ CURRENT_BITMAP' = [stored EXCEPT ![display] = result]
                      /\ bitmap_ref' =
                           [bitmap_ref EXCEPT ![display] =
                              IF isbm /\ ~blend THEN ref ELSE NoRef]
                      /\ dtr_rts' = select_display(display)
                      /\ send_raw_datagram(send_bitmap(short))
                      /\ tick_log' = Append(tick_log, LogBitmap(display, short))
                      /\ pc' = "render_wait"
              /\ UNCHANGED <<CURRENT_CONFIG, running>>
  /\ UNCHANGED <<display, message, now, kidx, actual_message,
                 sequence_needs_switching, time_string_cur_result, todo>>
  /\ UNCHANGED <<netVars, clock, processed, due, sync_from>>

\* set_bitmap returns, or the MatrixError of send_raw_datagram leaves the
\* for loop for the handler at line 338
RenderRet ==
  /\ pc = "render_wait"
  /\ lpc = "ret"
  /\ pc' = IF raised # NoError THEN "except" ELSE "override"
  /\ link_return
  /\ UNCHANGED <<display, message, now, kidx, actual_message,
                 sequence_needs_switching, time_string_cur_result, todo>>
  /\ UNCHANGED <<stateVars, netVars, histVars>>


\* line 323: the overridden keys the new effective item does not override
ResetKeys_none(specific, config) == <<>>
ResetKeys(specific, config) ==
  SelectSeq(KeyOrder,
            LAMBDA k : k \in DOMAIN specific /\ k \notin DOMAIN config)

\* lines 329-331 without the comparison of line 330
ApplyKeys_all(specific, config) ==
  SelectSeq(KeyOrder, LAMBDA k : k \in DOMAIN config)

\* lines 329-331: the overrides of the item that are not in effect already
ApplyKeys(specific, config) ==
  SelectSeq(KeyOrder,
            LAMBDA k : /\ k \in DOMAIN config
                       /\ ~(k \in DOMAIN specific /\ specific[k] = config[k]))

\* dict.pop(key, None) and dict[key] = value
DictPop(f, key) == [k \in DOMAIN f \ {key} |-> f[k]]
DictSet(f, key, value) ==
  [k \in DOMAIN f \cup {key} |-> IF k = key THEN value ELSE f[k]]

\* lines 321-333 (ConfigOverrideSync): the set_config calls to make
Override ==
  /\ pc = "override"
  /\ IF sequence_needs_switching \/ UD.message_changed
     THEN LET rk == ResetKeys(UD.config_specific, actual_message.config)
              ak == ApplyKeys(UD.config_specific, actual_message.config)
              work == [i \in 1..Len(rk) |->
                         [op |-> "reset", key |-> rk[i], value |-> PyInt(0)]]
                      \o [i \in 1..Len(ak) |->
                            [op |-> "apply", key |-> ak[i],
                             value |-> actual_message.config[ak[i]]]]
          IN  /\ todo' = work
              /\ sync_from' = UD.config_specific
              /\ pc' = IF work = <<>> THEN "done" ELSE "ovr"
     ELSE /\ todo' = <<>>
          /\ pc' = "done"
          /\ UNCHANGED sync_from
  /\ UNCHANGED <<display, message, now, kidx, actual_message,
                 sequence_needs_switching, time_string_cur_result>>
  /\ UNCHANGED <<linkVars, stateVars, netVars, clock, tick_log, processed,
                 due>>

\* the bookkeeping after a set_config of ConfigOverrideSync (326, 333)
AfterOverride(specific, item, value) ==
  IF item.op = "reset" THEN DictPop(specific, item.key)
  ELSE DictSet(specific, item.key, value)

\* lines 325 and 332: set_config for the next key
OvrCall ==
  /\ pc = "ovr"
  /\ lpc = "idle"
  /\ LET item == Head(todo)
         value == IF item.op = "reset" THEN CURRENT_CONFIG[display][item.key]
                  ELSE item.value
         byte == SetterByte(item.key, value)
     IN  /\ dtr_rts' = select_display(display)
         /\ IF byte = BadValue
            THEN /\ UPDATE_DATA' =
                      [UPDATE_DATA EXCEPT ![display].config_specific =
                         AfterOverride(@, item, value)]
                 /\ todo' = Tail(todo)
                 /\ pc' = IF Tail(todo) = <<>> THEN "done" ELSE "ovr"
                 /\ UNCHANGED <<linkVars, tick_log>>
            ELSE /\ send_raw_datagram(
                      set_parameter(ParameterCode(item.key), byte))
                 /\ tick_log' =
                      Append(tick_log, LogParam(display, item.key, byte))
                 /\ todo' = [todo EXCEPT ![1].value = value]
                 /\ pc' = "ovr_wait"
                 /\ UNCHANGED UPDATE_DATA
  /\ UNCHANGED <<CURRENT_BITMAP, bitmap_ref, CURRENT_MESSAGE, CURRENT_CONFIG, running>>
  /\ UNCHANGED <<display, message, now, kidx, actual_message,
                 sequence_needs_switching, time_string_cur_result>>
  /\ UNCHANGED <<netVars, clock, processed, due, sync_from>>

\* set_config returns (a MatrixError is caught inside it); lines 326 and 333
OvrRet ==
  /\ pc = "ovr_wait"
  /\ lpc = "ret"
  /\ UPDATE_DATA' =
       [UPDATE_DATA EXCEPT ![display].config_specific =
          AfterOverride(@, Head(todo), Head(todo).value)]
  /\ todo' = Tail(todo)
  /\ pc' = IF Tail(todo) = <<>> THEN "done" ELSE "ovr"
  /\ link_return
  /\ UNCHANGED <<CURRENT_BITMAP, bitmap_ref, CURRENT_MESSAGE, CURRENT_CONFIG, running,
                 dtr_rts>>
  /\ UNCHANGED <<display, message, now, kidx, actual_message,
                 sequence_needs_switching, time_string_cur_result>>
  /\ UNCHANGED <<netVars, histVars>>

\* line 334: update_data['message_changed'] = False
Done ==
  /\ pc = "done"
  /\ UPDATE_DATA' = [UPDATE_DATA EXCEPT ![display].message_changed = FALSE]
  /\ NextPanel
  /\ UNCHANGED <<CURRENT_BITMAP, bitmap_ref, CURRENT_MESSAGE, CURRENT_CONFIG, running,
                 dtr_rts>>
  /\ UNCHANGED <<linkVars, netVars, clock, tick_log, processed, due>>

\* a new pass of "while self.running": the for loop starts over
NewTick ==
  /\ display' = 0
  /\ pc' = IF running THEN "fetch" ELSE "stopped"
  /\ ClearLocals
  /\ tick_log' = <<>>
  /\ processed' = {}
  /\ due' = {}
  /\ UNCHANGED <<linkVars, stateVars, netVars, clock>>

\* line 335: every panel has had its turn; time.sleep(0.25)
Sleep == pc = "sleep" /\ NewTick

\* lines 338-339: an exception left the for loop; traceback.print_exc()
Except == pc = "except" /\ NewTick


----------------------------------------------------------------------------
(* MatrixServer: the network thread (network_listen, process_message) *)

\* a request as receive_message returns it; pairs are the items of a control
\* request's 'message', msg is the 'message' of a data request
\* has_displays and has_keys tell whether 'displays' and 'keys' are present
Request(type, displays, pairs, msg) ==
  [type |-> type, has_displays |-> TRUE, displays |-> displays,
   pairs |-> pairs, msg |-> msg, has_keys |-> FALSE, keys |-> <<>>]
ControlRequest(displays, pairs) == Request("control", displays, pairs, NoneMsg)
DataRequest(displays, msg) == Request("data", displays, <<>>, msg)
QueryBitmapRequest(displays) == Request("query-bitmap", displays, <<>>, NoneMsg)
QueryMessageRequest(displays) ==
  Request("query-message", displays, <<>>, NoneMsg)
QueryConfigRequest(displays, keys) ==
  [Request("query-config", displays, <<>>, NoneMsg)
     EXCEPT !.has_keys = TRUE, !.keys = keys]
\* the request without its 'displays', without its 'keys'
OmitDisplays(req) == [req EXCEPT !.has_displays = FALSE, !.displays = <<>>]
OmitKeys(req) == [req EXCEPT !.has_keys = FALSE, !.keys = <<>>]
NoRequest == Request("none", <<>>, <<>>, NoneMsg)

\* what send_message sent back; body holds the per-display entries of a query
Reply(kind, ok, body) == [kind |-> kind, success |-> ok, body |-> body]
NoReply == Reply("none", FALSE, <<>>)
SuccessReply == Reply("status", TRUE, <<>>)
\* line 344: {'success': False, 'error': ...}
ErrorReply_ok == Reply("status", TRUE, <<>>)
ErrorReply == Reply("error", FALSE, <<>>)
\* the reply without the entries of a query: {} when it has none
Entries(kind, body) == Reply(kind, TRUE, body)
\* line 226: a reply that is false as a condition (an empty dict) is not sent
Sent(r) == IF r.kind \in {"config", "message", "bitmap"} /\ r.body = <<>>
           THEN NoReply
           ELSE r

\* line 343: the message types process_message handles
ValidTypes == {"control", "data", "query-config", "query-message",
               "query-bitmap"}
\* message.get('type') of a request that has no 'type'
NoType == "None"

\* the keys of a dict built by inserting the items of seq in order
RECURSIVE DictKeys(_)
DictKeys(seq) ==
  IF seq = <<>> THEN <<>>
  ELSE LET front == DictKeys(DropLast(seq, 1))
           last == seq[Len(seq)]
       IN  IF \E i \in 1..Len(front) : front[i] = last
           THEN front
           ELSE Append(front, last)

\* lines 359-362, 374-376, 381-383: the displays a query is about
AllDisplays == [i \in 1..NumPanels |-> i - 1]
QueryDisplays_given(req) == req.displays
QueryDisplays(req) ==
  IF req.has_displays THEN req.displays ELSE AllDisplays

\* an accepted connection: allowed tells whether addr[0] passes the check of
\* line 213, wire what the peer sends, held whether the peer keeps its end
\* open after sending, unread whether bytes it sent are still unread, open
\* whether the server's socket object is open, spins how often recv has
\* returned b'' in discard_message
Connection(allowed, wire, held, unread, open) ==
  [allowed |-> allowed, wire |-> wire, held |-> held, unread |-> unread,
   open |-> open, spins |-> 0]
NoConnection == Connection(TRUE, "none", FALSE, FALSE, FALSE)
\* MatrixClient.send_message: one frame sent, the reply awaited
ClientConnection == Connection(TRUE, "frame", TRUE, FALSE, TRUE)

\* list[d] succeeds for -len <= d < len
ValidIndex(d) == d >= 0 - NumPanels /\ d < NumPanels
PyIndex(d) == IF d < 0 THEN d + NumPanels ELSE d

\* lines 219-225: a request arrives; json.loads builds a new Message object
Accept(menu) ==
  /\ gpc = "idle"
  /\ running
  /\ budget > 0
  /\ \E i \in 1..Len(menu) :
       request' = [menu[i] EXCEPT !.msg.oid =
                     IF menu[i].type = "data" THEN next_oid ELSE 0]
  /\ next_oid' = IF request'.type = "data" THEN next_oid + 1 ELSE next_oid
  /\ budget' = budget - 1
  /\ gpos' = 1
  /\ gkey' = 1
  /\ reply' = NoReply
  /\ gpc' = "proc"
  /\ conn' = ClientConnection
  /\ UNCHANGED <<client, linkVars, stateVars, loopVars, histVars>>

\* an exception leaves process_message: line 233, no reply is sent
Crash ==
  /\ gpc' = "idle"
  /\ request' = NoRequest
  /\ gpos' = 1
  /\ gkey' = 1
  /\ reply' = NoReply
  /\ UNCHANGED <<budget, next_oid, conn, client>>

\* the request is answered
Answer(r) ==
  /\ gpc' = "idle"
  /\ request' = NoRequest
  /\ gpos' = 1
  /\ gkey' = 1
  /\ reply' = r
  /\ UNCHANGED <<budget, next_oid, conn, client>>

\* line 349: the key is one of the panel's Config fields
Recognized_any(d, key) == TRUE
Recognized(d, key) == key \in DOMAIN CURRENT_CONFIG[d]

\* lines 347-350: the next key of the next display; a recognized key is
\* written to CURRENT_CONFIG
ControlWrite ==
  /\ gpc = "proc"
  /\ request.type = "control"
  /\ IF gpos > Len(request.displays)
     THEN Answer(SuccessReply) /\ UNCHANGED stateVars
     ELSE IF gkey > Len(request.pairs)
     THEN /\ gpos' = gpos + 1
          /\ gkey' = 1
          /\ UNCHANGED <<gpc, request, reply, budget, next_oid, conn, client, stateVars>>
     ELSE IF ~ValidIndex(request.displays[gpos])
     THEN Crash /\ UNCHANGED stateVars
     ELSE LET d == PyIndex(request.displays[gpos])
              key == request.pairs[gkey][1]
              value == request.pairs[gkey][2]
          IN  IF Recognized(d, key)
              THEN /\ CURRENT_CONFIG' =
                        [CURRENT_CONFIG EXCEPT ![d][key] = value]
                   /\ gpc' = "append"
                   /\ UNCHANGED <<request, gpos, gkey, reply, budget, next_oid, conn, client,
                                  CURRENT_BITMAP, bitmap_ref, CURRENT_MESSAGE,
                                  UPDATE_DATA,
                                  running, dtr_rts>>
              ELSE /\ gkey' = gkey + 1
                   /\ UNCHANGED <<gpc, request, gpos, reply, budget, next_oid, conn, client,
                                  stateVars>>
  /\ UNCHANGED <<linkVars, loopVars, histVars>>

\* line 351: the key is marked pending
ControlAppend ==
  /\ gpc = "append"
  /\ LET d == PyIndex(request.displays[gpos])
     IN  UPDATE_DATA' =
           [UPDATE_DATA EXCEPT ![d].config_keys_changed =
              Append(@, request.pairs[gkey][1])]
  /\ gkey' = gkey + 1
  /\ gpc' = "proc"
  /\ UNCHANGED <<request, gpos, reply, budget, next_oid, conn, client>>
  /\ UNCHANGED <<CURRENT_BITMAP, bitmap_ref, CURRENT_MESSAGE, CURRENT_CONFIG, running,
                 dtr_rts>>
  /\ UNCHANGED <<linkVars, loopVars, histVars>>

\* lines 354-355: the Message of the next display is replaced
DataWrite ==
  /\ gpc = "proc"
  /\ request.type = "data"
  /\ IF gpos > Len(request.displays)
     THEN Answer(SuccessReply) /\ UNCHANGED stateVars
     ELSE IF ~ValidIndex(request.displays[gpos])
     THEN Crash /\ UNCHANGED stateVars
     ELSE /\ CURRENT_MESSAGE' =
               [CURRENT_MESSAGE EXCEPT ![PyIndex(request.displays[gpos])] =
                  request.msg]
          /\ gpc' = "flag"
          /\ UNCHANGED <<request, gpos, gkey, reply, budget, next_oid, conn, client,
                         CURRENT_BITMAP, bitmap_ref, CURRENT_CONFIG,
                         UPDATE_DATA, running,
                         dtr_rts>>
  /\ UNCHANGED <<linkVars, loopVars, histVars>>

\* line 356: the panel's entry of UPDATE_DATA with message_changed set
MarkChanged_skip(ud) == ud
MarkChanged(ud) == [ud EXCEPT !.message_changed = TRUE]

\* line 356: the Message is marked changed
DataFlag ==
  /\ gpc = "flag"
  /\ UPDATE_DATA' =
       [UPDATE_DATA EXCEPT ![PyIndex(request.displays[gpos])] =
          MarkChanged(@)]
  /\ gpos' = gpos + 1
  /\ gpc' = "proc"
  /\ UNCHANGED <<request, gkey, reply, budget, next_oid, conn, client>>
  /\ UNCHANGED <<CURRENT_BITMAP, bitmap_ref, CURRENT_MESSAGE, CURRENT_CONFIG, running,
                 dtr_rts>>
  /\ UNCHANGED <<linkVars, loopVars, histVars>>

\* the dict a query returns: one entry per display, values[panel] its value
QueryReply(kind, displays, values) ==
  LET keys == DictKeys(displays)
  IN  Entries(kind, [i \in 1..Len(keys) |->
                       <<keys[i], values[PyIndex(keys[i])]>>])

\* lines 380-386: the stored bitmaps of the requested displays
QueryBitmap ==
  /\ gpc = "proc"
  /\ request.type = "query-bitmap"
  /\ LET displays == QueryDisplays(request)
     IN  IF \E i \in 1..Len(displays) : ~ValidIndex(displays[i])
         THEN Crash
         ELSE Answer(Sent(QueryReply("bitmap", displays, CURRENT_BITMAP)))
  /\ UNCHANGED <<linkVars, stateVars, loopVars, histVars>>

\* lines 365-370: the Config fields of a panel that are among the keys asked
\* for (all of them when 'keys' is absent)
reply_config(req, p) ==
  LET config == CURRENT_CONFIG[p]
      wanted == {k \in DOMAIN config :
                   \/ ~req.has_keys
                   \/ \E i \in 1..Len(req.keys) : req.keys[i] = k}
  IN  [k \in wanted |-> config[k]]

\* lines 358-372: the Config fields of the requested displays
QueryConfig ==
  /\ gpc = "proc"
  /\ request.type = "query-config"
  /\ LET displays == QueryDisplays(request)
         configs == [p \in Panels |-> reply_config(request, p)]
     IN  IF \E i \in 1..Len(displays) : ~ValidIndex(displays[i])
         THEN Crash
         ELSE Answer(Sent(QueryReply("config", displays, configs)))
  /\ UNCHANGED <<linkVars, stateVars, loopVars, histVars>>

\* lines 373-379: the stored Messages of the requested displays
QueryMessage ==
  /\ gpc = "proc"
  /\ request.type = "query-message"
  /\ LET displays == QueryDisplays(request)
     IN  IF \E i \in 1..Len(displays) : ~ValidIndex(displays[i])
         THEN Crash
         ELSE Answer(Sent(QueryReply("message", displays, CURRENT_MESSAGE)))
  /\ UNCHANGED <<linkVars, stateVars, loopVars, histVars>>

\* lines 343-344: the type is none of the five
InvalidType ==
  /\ gpc = "proc"
  /\ request.type \notin ValidTypes
  /\ Answer(ErrorReply)
  /\ UNCHANGED <<linkVars, stateVars, loopVars, histVars>>

\* what a peer may put on the wire: a well-formed frame; nothing; five bytes
\* that are no number; a length written with blanks for the leading zeros
\* and the payload it announces; a length and no payload; a length and part
\* of the payload; a length and a payload that is no JSON; the JSON null; a
\* JSON number
Wires == {"frame", "empty", "badprefix", "padded", "nopayload", "short",
          "badjson", "null", "scalar"}

\* lines 212-217: a connection is accepted from a peer that is not a client
\* sending a well-formed frame from an allowed address (that is Accept)
Connect ==
  /\ gpc = "idle"
  /\ running
  /\ budget > 0
  /\ \E allowed \in BOOLEAN, wire \in Wires, held \in BOOLEAN :
       /\ allowed => wire # "frame"
       /\ conn' = Connection(allowed, wire, held, wire # "empty", TRUE)
       /\ gpc' = IF allowed THEN "recv" ELSE "drain"
  /\ budget' = budget - 1
  /\ reply' = NoReply
  /\ UNCHANGED <<request, gpos, gkey, next_oid, client>>
  /\ UNCHANGED <<linkVars, stateVars, loopVars, histVars>>

\* receive_message blocks in a recv: the accepted socket has no timeout, the
\* peer holds the connection open and sends nothing (more)
ReadBlocks(c) == c.held /\ c.wire \in {"empty", "nopayload"}

\* lines 221-225, 232: receive_message returns or raises
Receive(menu) ==
  /\ gpc = "recv"
  /\ ~ReadBlocks(conn)
  /\ conn' = [conn EXCEPT !.unread = FALSE]
  /\ IF conn.wire = "padded"
     THEN \* int() takes the blanks, the payload is a request
          /\ \E i \in 1..Len(menu) :
               request' = [menu[i] EXCEPT !.msg.oid =
                             IF menu[i].type = "data" THEN next_oid ELSE 0]
          /\ next_oid' =
               IF request'.type = "data" THEN next_oid + 1 ELSE next_oid
          /\ gpos' = 1
          /\ gkey' = 1
          /\ gpc' = "proc"
     ELSE \* ValueError of int or json.loads, None (line 222), or the
          \* AttributeError of message.get in process_message
          /\ gpc' = "idle"
          /\ UNCHANGED <<request, gpos, gkey, next_oid>>
  /\ UNCHANGED <<reply, budget, client>>
  /\ UNCHANGED <<linkVars, stateVars, loopVars, histVars>>

\* recv calls returning b'' in discard_message are counted up to MaxSpins,
\* then from 0 again: the loop goes on for ever
MaxSpins == 2

\* discard_message, one sock.recv(1024) of the non-blocking socket: bytes
\* that were sent are returned; with none left, an open connection raises
\* socket.error, which ends the loop, and a connection the peer has closed
\* returns b'', which does not
Drain ==
  /\ gpc = "drain"
  /\ IF conn.unread
     THEN conn' = [conn EXCEPT !.unread = FALSE] /\ gpc' = gpc
     ELSE IF conn.held
     THEN conn' = conn /\ gpc' = "idle"
     ELSE /\ conn' = [conn EXCEPT !.spins = (@ + 1) % (MaxSpins + 1)]
          /\ gpc' = gpc
  /\ UNCHANGED <<request, gpos, gkey, reply, budget, next_oid, client>>
  /\ UNCHANGED <<linkVars, stateVars, loopVars, histVars>>

\* lines 182-184: stop() clears the flag both loops look at
stop ==
  /\ running
  /\ running' = FALSE
  /\ UNCHANGED <<CURRENT_BITMAP, bitmap_ref, CURRENT_MESSAGE, CURRENT_CONFIG, UPDATE_DATA,
                 dtr_rts>>
  /\ UNCHANGED <<linkVars, loopVars, netVars, histVars>>

\* lines 209, 228 and 236-237: the listener finds the flag cleared at the
\* head of its loop (accept has timed out or a connection has been dealt
\* with) and closes the listening socket
ListenEnd ==
  /\ gpc = "idle"
  /\ ~running
  /\ gpc' = "closed"
  /\ UNCHANGED <<request, gpos, gkey, reply, budget, next_oid, conn, client>>
  /\ UNCHANGED <<linkVars, stateVars, loopVars, histVars>>

\* time passes; the loop reads the clock at lines 243, 265 and 290 only, so
\* the advance is taken where the next step reads it
MaxTime == 4
Tick ==
  /\ clock < MaxTime
  /\ pc \in {"fetch", "entry"}
  /\ clock' = clock + 1
  /\ UNCHANGED <<linkVars, stateVars, loopVars, netVars, tick_log, processed,
                 due, sync_from>>


----------------------------------------------------------------------------
(* The initial state and the specifications *)

\* max_tries of the controller the server is given
ServerMaxTries == 2
\* requests the clients send in one run
MaxRequests == 3

LinkIdle ==
  /\ datagram = <<>>
  /\ num_tries = 0
  /\ success = FALSE
  /\ response = Unbound
  /\ raised = NoError
  /\ writes = 0
  /\ reads = 0
  /\ acked = FALSE
  /\ timedOut = FALSE
  /\ unacked = 0
  /\ lpc = "idle"

\* a value that is false as a condition: None or 0
Falsy(n) == n = NoneInt \/ n = 0

\* lines 466-472: the loop of build_sequence_message from item i on; the
\* items are the caller's dicts and are changed in place, raised tells
\* whether a ValueError ended the loop
RECURSIVE ScanSequence(_, _, _)
ScanSequence(sequence, duration, i) ==
  IF i > Len(sequence)
  THEN [sequence |-> sequence, raised |-> FALSE]
  ELSE IF sequence[i].type = "sequence"
  THEN [sequence |-> sequence, raised |-> TRUE]
  ELSE IF Falsy(sequence[i].duration)
  THEN IF Falsy(duration)
       THEN [sequence |-> sequence, raised |-> TRUE]
       ELSE ScanSequence([sequence EXCEPT ![i].duration = duration],
                         duration, i + 1)
  ELSE ScanSequence(sequence, duration, i + 1)

\* MatrixClient.build_sequence_message(sequence, duration): the caller's
\* list afterwards, whether the call raised, and the message it returned
build_sequence_message(sequence, duration) ==
  LET scan == ScanSequence(sequence, duration, 1)
  IN  [sequence |-> scan.sequence,
       raised |-> scan.raised,
       message |-> IF scan.raised THEN NoneMsg ELSE SequenceMsg(scan.sequence)]

\* a client: the list and the default duration it passes, the list as it
\* was before the call, and the outcome of the call
Client(sequence, duration) ==
  [given |-> sequence, sequence |-> sequence, duration |-> duration,
   called |-> FALSE, raised |-> FALSE, message |-> NoneMsg]
NoClient == Client(<<>>, NoneInt)

\* the items and default durations a client passes: bitmap, text and
\* sequence items without duration, with duration 0 and with a duration;
\* lists of up to MaxItems items
MaxItems == 2
MaxDuration == 2
Durations == {NoneInt} \cup 0..MaxDuration
ClientItems ==
  {Msg(type, NoData, <<>>, NoConfig, d) :
     type \in {"bitmap", "text", "sequence"}, d \in Durations}
ClientLists ==
  UNION {[1..n -> ClientItems] : n \in 0..MaxItems}

\* line 499: message = self.build_sequence_message(sequence, duration)
Build ==
  /\ ~client.called
  /\ LET r == build_sequence_message(client.sequence, client.duration)
     IN  client' = [client EXCEPT !.called = TRUE,
                                  !.sequence = r.sequence,
                                  !.raised = r.raised,
                                  !.message = r.message]
  /\ UNCHANGED <<gpc, request, gpos, gkey, reply, budget, next_oid, conn>>
  /\ UNCHANGED <<linkVars, stateVars, loopVars, histVars>>

\* MatrixServer.__init__ and run(): the class attributes as written
ServerInit ==
  /\ CURRENT_BITMAP = [p \in Panels |-> NoneBitmap]
  /\ bitmap_ref = [p \in Panels |-> NoRef]
  /\ CURRENT_MESSAGE = [p \in Panels |-> NoneMsg]
  /\ CURRENT_CONFIG = [p \in Panels |-> DefaultConfig]
  /\ UPDATE_DATA = [p \in Panels |-> DefaultUpdateData]
  /\ dtr_rts = <<0, 0>>
  /\ display = 0
  /\ message = NoneMsg
  /\ now = 0
  /\ kidx = 1
  /\ actual_message = NoneMsg
  /\ sequence_needs_switching = FALSE
  /\ time_string_cur_result = NoneString
  /\ todo = <<>>
  /\ gpc = "idle"
  /\ request = NoRequest
  /\ gpos = 1
  /\ gkey = 1
  /\ reply = NoReply
  /\ next_oid = 1
  /\ conn = NoConnection
  /\ clock = 0
  /\ tick_log = <<>>
  /\ processed = {}
  /\ due = {}
  /\ sync_from = NoSync

\* run(): both threads started, the clients about to send n requests
Boot(n) ==
  /\ ServerInit
  /\ client = NoClient
  /\ LinkIdle
  /\ max_tries = ServerMaxTries
  /\ running = TRUE
  /\ pc = "fetch"
  /\ budget = n

Init == Boot(MaxRequests)

\* the answers of the device the server runs against: acknowledge, refuse
\* (0xE2), stay silent
ServerAnswers == {ACK, 226, TIMEOUT}

LinkStep ==
  \/ LinkWrite /\ UNCHANGED <<stateVars, loopVars, netVars, histVars>>
  \/ LinkRead(ServerAnswers)
       /\ UNCHANGED <<stateVars, loopVars, netVars, histVars>>
  \/ LinkExit /\ UNCHANGED <<stateVars, loopVars, netVars, histVars>>

ControlStep ==
  \/ Fetch
  \/ CfgCall
  \/ CfgRet
  \/ CfgEnd
  \/ Clear
  \/ Idle
  \/ Entry
  \/ Refresh
  \/ RenderRet
  \/ Override
  \/ OvrCall
  \/ OvrRet
  \/ Done
  \/ Sleep
  \/ Except

GridA == [y \in 1..8 |-> [x \in 1..8 |-> 1]]
GridB == [y \in 1..8 |-> [x \in 1..8 |-> IF x = y THEN 1 ELSE 0]]
\* BITMAP_CHECKER cut to 16 columns
Checker8x16 == [y \in 1..8 |-> [x \in 1..16 |-> (x + y) % 2]]

PowerOn(displays) ==
  ControlRequest(displays, << <<"power_state", PyStr("on")>> >>)
PlainBitmap(grid) == BitmapMsg(grid, "None", FALSE, NoConfig, NoneInt)
SpeedBitmap(grid) ==
  BitmapMsg(grid, "None", FALSE, [k \in {"scroll_speed"} |-> PyInt(5)],
            NoneInt)

\* two panels, the power state written as a name and as an integer
ServerMenu ==
  << PowerOn(<<0, 1>>),
     ControlRequest(<<0>>, << <<"power_state", PyInt(0)>> >>),
     DataRequest(<<0, 1>>, PlainBitmap(GridA)),
     DataRequest(<<0>>, SpeedBitmap(GridB)) >>

\* one panel, section 8's end-to-end run (power on, an 8x16 grid, a bitmap
\* query) and a Message that carries an override
OneMenu ==
  << PowerOn(<<0>>),
     DataRequest(<<0>>, SpeedBitmap(GridB)),
     DataRequest(<<0>>, PlainBitmap(Checker8x16)),
     QueryBitmapRequest(<<0>>) >>

\* one panel: a sequence of three items lasting one time unit each, the
\* second with an override, and a sequence of one item
SeqItem(grid, config) == BitmapMsg(grid, "None", FALSE, config, 1)
SeqMenu ==
  << PowerOn(<<0>>),
     DataRequest(<<0>>,
                 SequenceMsg(<<SeqItem(GridA, NoConfig),
                               SeqItem(GridB,
                                       [k \in {"scroll_speed"} |-> PyInt(5)]),
                               SeqItem(Checker8x16, NoConfig)>>)),
     DataRequest(<<0>>, SequenceMsg(<<SeqItem(GridB, NoConfig)>>)) >>

NetStep(menu) ==
  \/ Accept(menu)
  \/ ControlWrite
  \/ ControlAppend
  \/ DataWrite
  \/ DataFlag

Next == ControlStep \/ LinkStep \/ NetStep(ServerMenu)
Spec == Init /\ [][Next]_vars

OneNext == ControlStep \/ LinkStep \/ NetStep(OneMenu) \/ QueryBitmap
OneSpec == Init /\ [][OneNext]_vars

\* every kind of request: a control request with a key that is no Config
\* field, a Message with an override, the three queries with and without
\* 'displays' and 'keys' and with no display, a type that is none of the five
\* and no type
GateRequests == 3
ColourKey == <<"colour", PyInt(3)>>
GateMenu ==
  << ControlRequest(<<0>>, << <<"power_state", PyStr("on")>>, ColourKey >>),
     DataRequest(<<0>>, SpeedBitmap(GridB)),
     DataRequest(<<1>>, PlainBitmap(GridA)),
     QueryConfigRequest(<<1, 0>>, <<"power_state", "colour">>),
     OmitDisplays(OmitKeys(QueryConfigRequest(<<>>, <<>>))),
     QueryMessageRequest(<<>>),
     OmitDisplays(QueryMessageRequest(<<>>)),
     QueryBitmapRequest(<<0, 0>>),
     Request("reboot", <<0>>, << <<"power_state", PyStr("on")>> >>,
             PlainBitmap(GridA)),
     Request(NoType, <<0>>, <<>>, PlainBitmap(GridA)) >>
GateInit == Boot(GateRequests)
GateStep ==
  \/ NetStep(GateMenu)
  \/ QueryConfig
  \/ QueryMessage
  \/ QueryBitmap
  \/ InvalidType
GateNext == ControlStep \/ LinkStep \/ GateStep
GateSpec == GateInit /\ [][GateNext]_vars

\* panel 0 powered on and given a Message with an override; panel 1, which
\* stays off, is sent a value above 255, a name the setter does not know, a
\* sequence that holds a sequence and a sequence whose item has no duration
BadRequests == 3
BadMenu ==
  << PowerOn(<<0>>),
     DataRequest(<<0>>, SpeedBitmap(GridB)),
     ControlRequest(<<1>>, << <<"scroll_speed", PyInt(300)>> >>),
     ControlRequest(<<1>>, << <<"display_mode", PyStr("sideways")>> >>),
     DataRequest(<<1>>,
                 SequenceMsg(<<SequenceMsg(<<SeqItem(GridA, NoConfig)>>)>>)),
     DataRequest(<<1>>, SequenceMsg(<<PlainBitmap(GridA)>>)) >>
BadInit == Boot(BadRequests)
BadNext == ControlStep \/ LinkStep \/ NetStep(BadMenu)
BadSpec == BadInit /\ [][BadNext]_vars

\* the network thread alone, an allow-list configured: clients that send
\* requests, and peers of every other kind
ConnRequests == 3
ConnMenu == << PowerOn(<<0>>), DataRequest(<<0>>, PlainBitmap(GridA)) >>
ConnInit == Boot(ConnRequests)
ConnNext == NetStep(ConnMenu) \/ Connect \/ Receive(ConnMenu) \/ Drain
ConnSpec == ConnInit /\ [][ConnNext]_vars

\* both threads, every kind of connection, and stop(); the two threads are
\* scheduled fairly
StopRequests == 2
StopMenu == << PowerOn(<<0>>), DataRequest(<<0>>, SpeedBitmap(GridB)) >>
StopInit == Boot(StopRequests)
Listener ==
  NetStep(StopMenu) \/ Connect \/ Receive(StopMenu) \/ Drain \/ ListenEnd
StopNext == ControlStep \/ LinkStep \/ Listener \/ stop
StopSpec ==
  /\ StopInit
  /\ [][StopNext]_vars
  /\ WF_vars(ControlStep \/ LinkStep)
  /\ WF_vars(Listener)

\* the server not started: no thread runs
Offline ==
  /\ ServerInit
  /\ LinkIdle
  /\ max_tries = ServerMaxTries
  /\ running = FALSE
  /\ pc = "stopped"
  /\ budget = 0

\* a caller of a setter of one of the two controllers: the key and the
\* value it passes, a name of some key or an integer up to MaxValue
MaxValue == 3
SetterCall(revision, key, value) ==
  [revision |-> revision, key |-> key, value |-> value, called |-> FALSE,
   byte |-> BadValue]
AllNames ==
  UNION {{SymbolicNames(key)[i] : i \in 1..Len(SymbolicNames(key))} :
           key \in ConfigKeys}
SetterValues == {PyStr(n) : n \in AllNames} \cup {PyInt(n) : n \in 0..MaxValue}
SetInit ==
  /\ Offline
  /\ \E revision \in {"legacy", "annax"}, key \in ConfigKeys,
        value \in SetterValues :
       client = SetterCall(revision, key, value)

\* controller.set_<key>(value): the value byte handed to the link
CallSetter ==
  /\ ~client.called
  /\ client' =
       [client EXCEPT !.called = TRUE,
                      !.byte = IF client.revision = "legacy"
                               THEN SetterByte(client.key, client.value)
                               ELSE AnnaxSetterByte(client.key, client.value)]
  /\ UNCHANGED <<gpc, request, gpos, gkey, reply, budget, next_oid, conn>>
  /\ UNCHANGED <<linkVars, stateVars, loopVars, histVars>>
SetNext == CallSetter
SetSpec == SetInit /\ [][SetNext]_vars

\* the grids handed to MatrixGraphics: Heights rows of up to MaxWidth
\* pixels; the odd rows follow a pattern, the even rows alternate
MaxWidth == 18
MaxBlocks == 2
Heights == {1, 8}
Patterns == {"ones", "alternate", "first", "last"}
PatternRow(pattern, w) ==
  [x \in 1..w |->
     CASE pattern = "ones" -> 1
       [] pattern = "alternate" -> x % 2
       [] pattern = "first" -> IF x = 1 THEN 1 ELSE 0
       [] pattern = "last" -> IF x = w THEN 1 ELSE 0]
PatternGrid(pattern, w, h) ==
  [y \in 1..h |-> PatternRow(IF y % 2 = 1 THEN pattern ELSE "alternate", w)]
SampleGrids ==
  {PatternGrid(pattern, w, h) :
     pattern \in Patterns, w \in 1..MaxWidth, h \in Heights}

\* a caller of MatrixGraphics: the list it passes (changed in place by
\* align_long_bitmap), the list as it was given, the alignment, the width
\* of the panel, the list after the first call of align_long_bitmap, and
\* the grid packed last with its blocks
GraphicsCall(grid, align, target_width) ==
  [given |-> grid, grid |-> grid, align |-> align,
   target_width |-> target_width, calls |-> 0, once |-> NoneBitmap,
   packed_from |-> NoneBitmap, packed |-> <<>>]
GfxInit ==
  /\ Offline
  /\ \E grid \in SampleGrids, align \in {"left", "center", "right", "None"},
        blocks \in 1..MaxBlocks :
       client = GraphicsCall(grid, align, blocks * 8)

\* set_bitmap line 393: self.graphics.align_long_bitmap(bitmap, align), and
\* the same call for the list it returned
CallAlign ==
  /\ client.calls < 2
  /\ LET new == align_long_bitmap(client.grid, client.align,
                                  client.target_width)
     IN  client' = [client EXCEPT !.grid = new,
                                  !.calls = @ + 1,
                                  !.once = IF client.calls = 0 THEN new ELSE @]
  /\ UNCHANGED <<gpc, request, gpos, gkey, reply, budget, next_oid, conn>>
  /\ UNCHANGED <<linkVars, stateVars, loopVars, histVars>>

\* send_long_bitmap: self.long_bitmap_to_short_bitmap(bitmap)
CallPack ==
  /\ client.packed_from # client.grid
  /\ client' = [client EXCEPT !.packed_from = client.grid,
                              !.packed =
                                 long_bitmap_to_short_bitmap(client.grid)]
  /\ UNCHANGED <<gpc, request, gpos, gkey, reply, budget, next_oid, conn>>
  /\ UNCHANGED <<linkVars, stateVars, loopVars, histVars>>
GfxNext == CallAlign \/ CallPack
GfxSpec == GfxInit /\ [][GfxNext]_vars

\* a client alone, about to build a sequence message
BuildInit ==
  /\ Offline
  /\ \E sequence \in ClientLists, duration \in Durations :
       client = Client(sequence, duration)
BuildNext == Build
BuildSpec == BuildInit /\ [][BuildNext]_vars

\* one panel given a left-aligned grid narrower than the panel, with an
\* override, and asked for its Message
KeepRequests == 3
KeepMenu ==
  << PowerOn(<<0>>),
     DataRequest(<<0>>,
                 BitmapMsg(GridB, "left", FALSE,
                           [k \in {"scroll_speed"} |-> PyInt(5)], NoneInt)),
     QueryMessageRequest(<<0>>) >>
KeepInit == Boot(KeepRequests)
KeepNext == ControlStep \/ LinkStep \/ NetStep(KeepMenu) \/ QueryMessage
KeepSpec == KeepInit /\ [][KeepNext]_vars

\* one panel whose power state is written as an integer and as a name
IntMenu ==
  << ControlRequest(<<0>>, << <<"power_state", PyInt(1)>> >>),
     ControlRequest(<<0>>, << <<"power_state", PyStr("off")>> >>),
     DataRequest(<<0>>, SpeedBitmap(GridB)) >>
IntNext == ControlStep \/ LinkStep \/ NetStep(IntMenu)
IntSpec == Init /\ [][IntNext]_vars

\* two panels given the same Message, both powered on
TwoRequests == 2
TwoMenu ==
  << PowerOn(<<0, 1>>),
     DataRequest(<<0, 1>>, SpeedBitmap(GridB)) >>
TwoInit == Boot(TwoRequests)
TwoNext == ControlStep \/ LinkStep \/ NetStep(TwoMenu)
TwoSpec == TwoInit /\ [][TwoNext]_vars

\* one panel: a sequence of two items lasting one and two time units, the
\* second with an override, and a sequence of one item that lasts no time
AdvRequests == 2
AdvMenu ==
  << PowerOn(<<0>>),
     DataRequest(<<0>>,
                 SequenceMsg(<<BitmapMsg(GridA, "None", FALSE, NoConfig, 1),
                               BitmapMsg(GridB, "None", FALSE,
                                         [k \in {"scroll_speed"} |-> PyInt(5)],
                                         2)>>)),
     DataRequest(<<0>>,
                 SequenceMsg(<<BitmapMsg(GridB, "None", FALSE, NoConfig, 0)>>)) >>
AdvInit == Boot(AdvRequests)
AdvNext == ControlStep \/ LinkStep \/ NetStep(AdvMenu) \/ Tick
AdvSpec == AdvInit /\ [][AdvNext]_vars

\* one panel: powered on, given a Message that overrides scroll_speed, and
\* a control operation that writes the baseline scroll_speed
BaseRequests == 3
BaseMenu ==
  << PowerOn(<<0>>),
     DataRequest(<<0>>, SpeedBitmap(GridB)),
     ControlRequest(<<0>>, << <<"scroll_speed", PyInt(3)>> >>) >>
BaseInit == Boot(BaseRequests)
BaseNext == ControlStep \/ LinkStep \/ NetStep(BaseMenu)
BaseSpec == BaseInit /\ [][BaseNext]_vars

\* a caller of one of the two controllers: pending is pending_messages of
\* the queueing controller, op, code and value the call made last, outcome
\* how it ended, before the queue as the call found it, sent the datagram
\* it handed to send_raw_datagram
MaxQueue == 2
Codes == {0, 1, 15, 16}
Values == {-1, 0, 255, 256}
QueueCaller ==
  [pending |-> <<>>, op |-> "none", code |-> 0, value |-> 0,
   outcome |-> "none", before |-> <<>>, sent |-> <<>>]
QueueInit ==
  /\ ServerInit
  /\ LinkIdle
  /\ max_tries \in 1..ServerMaxTries
  /\ running = FALSE
  /\ pc = "stopped"
  /\ budget = 0
  /\ client = QueueCaller

\* the server's part of the state stays as it is
CallerOnly ==
  /\ UNCHANGED <<gpc, request, gpos, gkey, reply, budget, next_oid, conn>>
  /\ UNCHANGED <<stateVars, loopVars, histVars>>

\* annax/matrix_controller.py set_parameter (128-139)
QueueParameter ==
  /\ lpc = "idle"
  /\ Len(client.pending) < MaxQueue
  /\ \E code \in Codes, value \in Values :
       client' =
         [client EXCEPT
            !.op = "set_parameter", !.code = code, !.value = value,
            !.before = client.pending, !.sent = <<>>,
            !.pending = IF Accepted(code, value)
                        THEN Append(@, parameter_message(code, value))
                        ELSE @,
            !.outcome = IF Accepted(code, value) THEN "queued"
                        ELSE "AssertionError"]
  /\ CallerOnly
  /\ UNCHANGED linkVars

\* annax/matrix_controller.py send_bitmap (119-126) for a bitmap of one
\* block
QueueBitmap ==
  /\ lpc = "idle"
  /\ Len(client.pending) < MaxQueue
  /\ client' =
       [client EXCEPT
          !.op = "send_bitmap", !.code = 0, !.value = 0,
          !.before = client.pending, !.sent = <<>>,
          !.pending = Append(@, bitmap_message(<< <<129, 66>> >>)),
          !.outcome = "queued"]
  /\ CallerOnly
  /\ UNCHANGED linkVars

\* commit (98-111) up to the call of send_raw_datagram
Commit ==
  /\ lpc = "idle"
  /\ IF client.pending = <<>>
     THEN /\ client' = [client EXCEPT !.op = "commit", !.code = 0,
                                      !.value = 0, !.before = <<>>,
                                      !.sent = <<>>, !.outcome = "False"]
          /\ UNCHANGED linkVars
     ELSE /\ client' = [client EXCEPT
                          !.op = "commit", !.code = 0, !.value = 0,
                          !.before = client.pending,
                          !.sent = commit_datagram(client.pending),
                          !.outcome = "sending"]
          /\ send_raw_datagram(commit_datagram(client.pending))
  /\ CallerOnly

\* commit (112-117): the MatrixError is raised again, or clear_queue
Committed ==
  /\ lpc = "ret"
  /\ client.op = "commit"
  /\ client' = [client EXCEPT
                  !.pending = IF raised # NoError THEN @ ELSE <<>>,
                  !.outcome = IF raised # NoError THEN "MatrixError"
                              ELSE "True"]
  /\ link_return
  /\ CallerOnly

\* python/matrix_controller.py set_parameter (118-131) up to the call of
\* send_raw_datagram
SendParameter ==
  /\ lpc = "idle"
  /\ \E code \in Codes, value \in Values :
       /\ client' =
            [client EXCEPT
               !.op = "legacy_set_parameter", !.code = code,
               !.value = value, !.before = client.pending,
               !.sent = IF Accepted(code, value)
                        THEN set_parameter(code, value) ELSE <<>>,
               !.outcome = IF Accepted(code, value) THEN "sending"
                           ELSE "AssertionError"]
       /\ IF Accepted(code, value)
          THEN send_raw_datagram(set_parameter(code, value))
          ELSE UNCHANGED linkVars
  /\ CallerOnly

\* python/matrix_controller.py set_parameter returns or raises
ParameterSent ==
  /\ lpc = "ret"
  /\ client.op = "legacy_set_parameter"
  /\ client' = [client EXCEPT
                  !.outcome = IF raised # NoError THEN "MatrixError"
                              ELSE "True"]
  /\ link_return
  /\ CallerOnly

QueueNext ==
  \/ QueueParameter
  \/ QueueBitmap
  \/ Commit
  \/ Committed
  \/ SendParameter
  \/ ParameterSent
  \/ LinkStep
QueueSpec == QueueInit /\ [][QueueNext]_vars

\* one panel: powered on, given a Message that is blended with the stored
\* Bitmap, and a Message that is not
BlendRequests == 3
BlendMenu ==
  << PowerOn(<<0>>),
     DataRequest(<<0>>, BitmapMsg(GridB, "None", TRUE, NoConfig, NoneInt)),
     DataRequest(<<0>>, SpeedBitmap(GridA)) >>
BlendInit == Boot(BlendRequests)
BlendNext == ControlStep \/ LinkStep \/ NetStep(BlendMenu)
BlendSpec == BlendInit /\ [][BlendNext]_vars

\* two panels given one Message object: a grid one column wider than the
\* panel, to be centred, with an override
WideGrid ==
  [y \in 1..8 |-> [x \in 1..(num_blocks * 8 + 1) |-> IF x = y THEN 1 ELSE 0]]
SharedRequests == 2
SharedMenu ==
  << PowerOn(<<0, 1>>),
     DataRequest(<<0, 1>>,
                 BitmapMsg(WideGrid, "center", FALSE,
                           [k \in {"scroll_speed"} |-> PyInt(5)], NoneInt)) >>
SharedInit == Boot(SharedRequests)
SharedNext == ControlStep \/ LinkStep \/ NetStep(SharedMenu)
SharedSpec == SharedInit /\ [][SharedNext]_vars

\* requests that name a panel the server does not have: after a valid
\* panel, alone and negative
IdxRequests == 3
IdxMenu ==
  << PowerOn(<<0>>),
     DataRequest(<<0, 5>>, SpeedBitmap(GridB)),
     ControlRequest(<<0, 5>>, << <<"scroll_speed", PyInt(3)>> >>),
     DataRequest(<<5, 0>>, PlainBitmap(GridA)),
     ControlRequest(<<-1>>, << <<"scroll_speed", PyInt(7)>> >>) >>
IdxInit == Boot(IdxRequests)
IdxNext == ControlStep \/ LinkStep \/ NetStep(IdxMenu)
IdxSpec == IdxInit /\ [][IdxNext]_vars

\* requests the clients send in a run of SeqSpec
SeqRequests == 2
SeqInit == Boot(SeqRequests)
SeqNext == ControlStep \/ LinkStep \/ NetStep(SeqMenu) \/ Tick
SeqSpec == SeqInit /\ [][SeqNext]_vars

----------------------------------------------------------------------------
(* The link protocol on its own: a caller transmits datagrams *)

\* frames as commit() builds them: 0xFF, the message count, the messages
SampleDatagrams == { <<255, 1, 166, 1>>, <<255, 2, 162, 5, 161, 0>> }

LinkInit ==
  /\ ServerInit
  /\ client = NoClient
  /\ LinkIdle
  /\ max_tries \in 1..MaxMaxTries
  /\ running = FALSE
  /\ pc = "stopped"
  /\ budget = 0

\* commit() line 111: self.send_raw_datagram(datagram)
Transmit ==
  /\ lpc = "idle"
  /\ \E dg \in SampleDatagrams : send_raw_datagram(dg)
  /\ UNCHANGED <<stateVars, loopVars, netVars, histVars>>

\* the call is over (it returned True or raised)
Transmitted ==
  /\ lpc = "ret"
  /\ link_return
  /\ UNCHANGED <<stateVars, loopVars, netVars, histVars>>

LinkNext ==
  \/ Transmit
  \/ LinkWrite /\ UNCHANGED <<stateVars, loopVars, netVars, histVars>>
  \/ LinkRead(Bytes \cup {TIMEOUT})
       /\ UNCHANGED <<stateVars, loopVars, netVars, histVars>>
  \/ LinkExit /\ UNCHANGED <<stateVars, loopVars, netVars, histVars>>
  \/ Transmitted
LinkSpec == LinkInit /\ [][LinkNext]_vars

----------------------------------------------------------------------------
(* Properties of the link protocol, checked under LinkSpec *)

\* C4: when every attempt of a call is answered by a byte other than 0xFF,
\* the call writes the datagram exactly max_tries times and raises the error
\* whose code is the last response byte minus 0xE0
C4_ErrorCodeIsLastByteMinusE0 ==
  (lpc = "ret" /\ ~acked /\ ~timedOut)
    => (writes = max_tries /\ raised = response - ErrBase)

----------------------------------------------------------------------------
(* Properties of the server, checked under Spec *)

\* C1: a tick that ends, normally or by a failure of a panel's transaction,
\* has entered the loop body of every panel
C1_EveryPanelProcessed ==
  pc \in {"sleep", "except"} => processed = Panels

\* C2: when line 251 empties a panel's pending list, every key of the list
\* has been given to set_config by the loop of line 247
C2_NoPendingKeyDiscarded ==
  [][(pc = "clear" /\ pc' = "idle")
       => kidx > Len(UPDATE_DATA[display].config_keys_changed)]_vars

\* the mark of a panel's stored Message is set (the gateway is not between
\* storing the Message and marking it)
MarkIsOfStoredMessage(d) ==
  ~(gpc = "flag" /\ PyIndex(request.displays[gpos]) = d)

\* this pass of the loop body has pushed the bitmap of the stored Message
StoredMessagePushed(d) ==
  /\ message.oid = CURRENT_MESSAGE[d].oid
  /\ \E i \in 1..Len(tick_log) :
       tick_log[i].kind = "bitmap" /\ tick_log[i].display = d

\* C3: on a panel that is powered on, line 334 clears the mark of a stored
\* Message only in a pass that has rendered that Message
C3_MarkClearedOnlyAfterRender ==
  [][(/\ pc = "done"
      /\ pc' # "done"
      /\ CURRENT_CONFIG[display]["power_state"] = PyStr("on")
      /\ UPDATE_DATA[display].message_changed
      /\ MarkIsOfStoredMessage(display))
       => StoredMessagePushed(display)]_vars

\* the values set_power_state transmits as 0
OffValues == {PyStr("off"), PyInt(0)}

\* C10: a panel whose power state holds an off value when line 253 reads it
\* is skipped, whichever off value it is
C10_OffPanelSkipped ==
  [][(pc = "idle" /\ pc' = "entry")
       => CURRENT_CONFIG[display]["power_state"] \notin OffValues]_vars

----------------------------------------------------------------------------
(* Properties of the server, checked under OneSpec *)

ParamSent(d, k, b) ==
  \E i \in 1..Len(tick_log) : tick_log[i] = LogParam(d, k, b)

\* C7: when ConfigOverrideSync has run in a pass (the pass entered a Message
\* or advanced a sequence), every key that was overridden before and is not
\* overridden by the new effective item has been sent to the device with the
\* panel's baseline Config value and is no longer among the overrides in
\* effect
C7_OverrideRestored ==
  (pc = "done" /\ sync_from # NoSync)
    => \A k \in DOMAIN sync_from \ DOMAIN actual_message.config :
         /\ k \notin DOMAIN UPDATE_DATA[display].config_specific
         /\ ParamSent(display, k,
                      SetterByte(k, CURRENT_CONFIG[display][k]))

\* a Message without overrides has been entered after one that overrode
\* scroll_speed, and scroll_speed has been sent with the baseline value 1
C7_SpeedRestored ==
  /\ pc = "done"
  /\ sync_from # NoSync
  /\ "scroll_speed" \in DOMAIN sync_from
  /\ sync_from["scroll_speed"] = PyInt(5)
  /\ actual_message.config = NoConfig
  /\ ParamSent(display, "scroll_speed", 1)
  /\ UPDATE_DATA[display].config_specific = NoConfig

\* section 8's run: panel 0 is on and the only Message ever received is the
\* 8x16 checkerboard, stored for panel 0
E2EScenario ==
  /\ next_oid = 2
  /\ CURRENT_CONFIG[0]["power_state"] = PyStr("on")
  /\ CURRENT_MESSAGE[0].type = "bitmap"
  /\ CURRENT_MESSAGE[0].data.bitmap = Checker8x16

BitmapPushes(d) ==
  {i \in 1..Len(tick_log) :
     tick_log[i].kind = "bitmap" /\ tick_log[i].display = d}

\* the bitmap datagram of panel 0 is being transmitted in the scenario
E2EPushing ==
  /\ E2EScenario
  /\ pc = "render_wait"
  /\ display = 0

\* C9 (the datagram): in the scenario the tick pushes one bitmap datagram to
\* panel 0, and the datagram carries 2 blocks of 8 bytes
C9_OnePushOfTwoBlocks ==
  /\ E2EPushing
       => /\ Cardinality(BitmapPushes(0)) = 1
          /\ datagram[4] = 2
          /\ Len(datagram) = 5 + 2 * 8
          /\ dtr_rts = <<0, 0>>
  /\ (E2EScenario /\ pc = "sleep" /\ 0 \in due)
       => /\ Cardinality(BitmapPushes(0)) = 1
          /\ \A i \in BitmapPushes(0) : tick_log[i].blocks = 2
          /\ CURRENT_BITMAP[0] = Checker8x16

\* C9 (the query): in the scenario, once a bitmap has been pushed to panel 0
\* (a bitmap is stored for it), a query-bitmap for panel 0 returns the
\* checkerboard, which alignment None leaves as it was sent
C9_QueryReturnsChecker ==
  (/\ E2EScenario
   /\ CURRENT_BITMAP[0] # NoneBitmap
   /\ gpc = "proc"
   /\ request = QueryBitmapRequest(<<0>>)
   /\ gpc' = "idle")
    => reply' = Reply("bitmap", TRUE, << <<0, Checker8x16>> >>)

----------------------------------------------------------------------------
(* Properties of the sequence cursor, checked under SeqSpec *)

InPass == pc \in {"refresh", "render_wait", "override", "ovr", "ovr_wait",
                  "done"}

\* the cursor the loop has after lines 257-287 is an index of the sequence
\* it is working on
C8_CursorInRange ==
  (InPass /\ message.type = "sequence")
    => UPDATE_DATA[display].sequence_cur_pos \in 0..(Len(message.items) - 1)

\* the pass is at lines 274-287 with a sequence and a cursor that selects
\* an item whose duration has elapsed: the cursor advances
Advancing ==
  /\ pc = "entry"
  /\ message.type = "sequence"
  /\ LET ud == EntrySchedule(UPDATE_DATA[display], message, now, clock)
     IN  /\ ~SelectRaises(ud, message)
         /\ now - ud.sequence_last_switched
              >= message.items[ud.sequence_cur_pos + 1].duration

\* an advance moves the cursor by one, from the last item to 0
C8_AdvanceWraps ==
  (Advancing /\ pc' # "entry")
    => LET ud == EntrySchedule(UPDATE_DATA[display], message, now, clock)
       IN  UPDATE_DATA'[display].sequence_cur_pos =
             (ud.sequence_cur_pos + 1) % Len(message.items)

\* C8: for a sequence of n items the cursor stays in 0..n-1 through every
\* tick, an advance from the last item giving 0
C8_CursorWraps == []C8_CursorInRange /\ [][C8_AdvanceWraps]_vars

\* the third advance of the 3-item sequence has just been made: the cursor
\* is 0 again
C8_WrappedToZero ==
  /\ pc = "refresh"
  /\ sequence_needs_switching
  /\ message.type = "sequence"
  /\ Len(message.items) = 3
  /\ UPDATE_DATA[display].sequence_cur_pos = 0
  /\ now >= 3

----------------------------------------------------------------------------
(* Properties of the power state, checked under IntSpec *)

\* the values set_power_state transmits as 1
OnValues == {PyStr("on"), PyInt(1)}

\* ConfigSync has transmitted power state ON for a panel that has a Message
\* and is at line 249, the power state still holding an on value
PowerOnApplied ==
  /\ pc = "cfg_wait"
  /\ pc' = "cfg"
  /\ UPDATE_DATA[display].config_keys_changed[kidx] = "power_state"
  /\ datagram = set_parameter(ParameterCode("power_state"), 1)
  /\ CURRENT_CONFIG[display]["power_state"] \in OnValues
  /\ message.type # "none"

\* C11: applying a pending power state ON for a panel that has a Message
\* marks the Message changed, so that the same pass redraws it
C11_PowerOnForcesRedraw ==
  [][PowerOnApplied => UPDATE_DATA'[display].message_changed]_vars

----------------------------------------------------------------------------
(* Properties of the panel selection, checked under TwoSpec *)

\* the select lines that address panel d: DTR the high bit, RTS the low bit
Encoding(d) == <<d \div 2, d % 2>>

\* C12: while a transaction is on the link, the select lines encode the
\* panel the transaction was issued for, which is the panel the loop is at;
\* the four indexes are given four different combinations
C12_SelectedBeforeWrite ==
  /\ lpc # "idle"
       => /\ tick_log # <<>>
          /\ tick_log[Len(tick_log)].display = display
          /\ dtr_rts = Encoding(display)
  /\ \A a, b \in 0..3 :
       /\ select_display(a) = Encoding(a)
       /\ a # b => select_display(a) # select_display(b)

\* the datagram of a transaction for panel 1 has been written after one for
\* panel 0 in the same tick
C12_SecondPanelWritten ==
  /\ lpc = "read"
  /\ display = 1
  /\ dtr_rts = <<0, 1>>
  /\ \E i \in 1..Len(tick_log) : tick_log[i].display = 0

----------------------------------------------------------------------------
(* Properties of the request handlers, checked under GateSpec *)

\* the panels a control or data request names
Named(req) ==
  {PyIndex(req.displays[i]) : i \in 1..Len(req.displays)}

\* Config, Message and ScheduleState of a panel
PanelState(p) == <<CURRENT_CONFIG[p], CURRENT_MESSAGE[p], UPDATE_DATA[p]>>

\* the network thread takes a step of the handler of a request of this type
HandlerStep(type) ==
  /\ request.type = type
  /\ gpc # "idle"
  /\ netVars' # netVars

\* the panels the request does not name keep their state
OthersKept == \A p \in Panels \ Named(request) : PanelState(p)' = PanelState(p)

\* what a step of the control handler does
ControlEffect ==
  IF gpos > Len(request.displays)
  THEN /\ reply' = SuccessReply
       /\ gpc' = "idle"
       /\ stateVars' = stateVars
  ELSE IF gkey > Len(request.pairs)
  THEN /\ gpos' = gpos + 1
       /\ gkey' = 1
       /\ stateVars' = stateVars
  ELSE LET d == PyIndex(request.displays[gpos])
           key == request.pairs[gkey][1]
           value == request.pairs[gkey][2]
       IN  /\ CURRENT_BITMAP' = CURRENT_BITMAP
           /\ CURRENT_MESSAGE' = CURRENT_MESSAGE
           /\ IF key \notin ConfigKeys
              THEN /\ gpc = "proc" /\ gpc' = "proc"
                   /\ gkey' = gkey + 1
                   /\ stateVars' = stateVars
              ELSE IF gpc = "proc"
              THEN /\ gpc' = "append"
                   /\ CURRENT_CONFIG'[d][key] = value
                   /\ \A k \in ConfigKeys \ {key} :
                        CURRENT_CONFIG'[d][k] = CURRENT_CONFIG[d][k]
                   /\ UPDATE_DATA' = UPDATE_DATA
              ELSE /\ gpc' = "proc"
                   /\ gkey' = gkey + 1
                   /\ CURRENT_CONFIG' = CURRENT_CONFIG
                   /\ UPDATE_DATA'[d] =
                        [UPDATE_DATA[d] EXCEPT !.config_keys_changed =
                           Append(@, key)]

\* C13: the control handler goes through the named panels and the keys of
\* the message in order; a key that is a Config field is written to the
\* panel's Config and then appended to its pending keys, any other key
\* changes nothing; the reply is {success: true}; the Config, Message and
\* ScheduleState of the panels not named stay as they are
C13_ControlFrame ==
  [][HandlerStep("control") => ControlEffect /\ OthersKept]_vars

\* a control request with power_state and a key that is no Config field
\* has been answered: power_state is written, nothing of the other key
C13_ControlAnswered ==
  /\ gpc = "idle"
  /\ budget = GateRequests - 1
  /\ reply = SuccessReply
  /\ CURRENT_CONFIG[0]["power_state"] = PyStr("on")
  /\ DOMAIN CURRENT_CONFIG[0] = ConfigKeys
  /\ CURRENT_CONFIG[1] = DefaultConfig
  /\ UPDATE_DATA[0].config_keys_changed = <<"power_state">>
  /\ UPDATE_DATA[1] = DefaultUpdateData

\* what a step of the data handler does
DataEffect ==
  IF gpos > Len(request.displays)
  THEN /\ reply' = SuccessReply
       /\ gpc' = "idle"
       /\ stateVars' = stateVars
  ELSE LET d == PyIndex(request.displays[gpos])
       IN  /\ CURRENT_BITMAP' = CURRENT_BITMAP
           /\ CURRENT_CONFIG' = CURRENT_CONFIG
           /\ IF gpc = "proc"
              THEN /\ gpc' = "flag"
                   /\ CURRENT_MESSAGE'[d] = request.msg
                   /\ UPDATE_DATA' = UPDATE_DATA
              ELSE /\ gpc' = "proc"
                   /\ gpos' = gpos + 1
                   /\ CURRENT_MESSAGE' = CURRENT_MESSAGE
                   /\ UPDATE_DATA'[d].message_changed
                   /\ \A f \in DOMAIN UPDATE_DATA[d] \ {"message_changed"} :
                        UPDATE_DATA'[d][f] = UPDATE_DATA[d][f]

\* C14: the data handler goes through the named panels in order; it stores
\* the submitted Message as the panel's Message and then marks the panel
\* message-changed; the reply is {success: true}; no Config and no Bitmap
\* changes, and the Message and ScheduleState of the panels not named stay
\* as they are
C14_DataFrame ==
  [][HandlerStep("data") => DataEffect /\ OthersKept]_vars

\* a data request for panel 1 has been answered: panel 1 holds the Message
\* and is marked, panel 0 and every Config are as they were
C14_DataAnswered ==
  /\ gpc = "idle"
  /\ budget = GateRequests - 1
  /\ reply = SuccessReply
  /\ Content(CURRENT_MESSAGE[1]) = PlainBitmap(GridA)
  /\ UPDATE_DATA[1].message_changed
  /\ PanelState(0) = <<DefaultConfig, NoneMsg, DefaultUpdateData>>
  /\ CURRENT_CONFIG[1] = DefaultConfig

\* the display indexes a query asks for, the keys a query-config asks for
Requested ==
  IF request.has_displays
  THEN {request.displays[i] : i \in 1..Len(request.displays)}
  ELSE Panels
RequestedKeys ==
  IF request.has_keys
  THEN ConfigKeys \cap {request.keys[i] : i \in 1..Len(request.keys)}
  ELSE ConfigKeys

\* the value a query of the kind reports for panel p
Reported(kind, p) ==
  CASE kind = "query-config" -> [k \in RequestedKeys |-> CURRENT_CONFIG[p][k]]
    [] kind = "query-message" -> CURRENT_MESSAGE[p]
    [] kind = "query-bitmap" -> CURRENT_BITMAP[p]

ReplyKind(kind) ==
  CASE kind = "query-config" -> "config"
    [] kind = "query-message" -> "message"
    [] kind = "query-bitmap" -> "bitmap"

\* what the handler of a query does: when no panel is asked for, the reply
\* is an empty dict, which line 226 does not send
QueryEffect(kind) ==
  /\ stateVars' = stateVars
  /\ gpc' = "idle"
  /\ IF Requested = {}
     THEN reply' = NoReply
     ELSE /\ reply'.kind = ReplyKind(kind)
          /\ Len(reply'.body) = Cardinality(Requested)
          /\ {reply'.body[i][1] : i \in 1..Len(reply'.body)} = Requested
          /\ \A i \in 1..Len(reply'.body) :
               reply'.body[i][2] = Reported(kind, PyIndex(reply'.body[i][1]))

\* C15: a query changes no panel state and returns one entry for each panel
\* asked for, holding the Config fields asked for, the Message or the Bitmap
\* the panel has at that moment; without 'displays' the entries are those of
\* all panels, without 'keys' an entry holds every Config field
C15_QueryFrame ==
  [][\A kind \in {"query-config", "query-message", "query-bitmap"} :
       HandlerStep(kind) => QueryEffect(kind)]_vars

\* a query-config without 'displays' and 'keys' has returned every field of
\* every panel, among them a power state written by a control request
C15_AllPanelsAllKeys ==
  /\ gpc = "idle"
  /\ reply.kind = "config"
  /\ Len(reply.body) = NumPanels
  /\ \A i \in 1..Len(reply.body) : DOMAIN reply.body[i][2] = ConfigKeys
  /\ \E i \in 1..Len(reply.body) :
       /\ reply.body[i][1] = 0
       /\ reply.body[i][2]["power_state"] = PyStr("on")

\* the five kinds of request
Kinds == {"control", "data", "query-config", "query-message", "query-bitmap"}

\* C16: a request whose 'type' is none of the five kinds, or is absent, is
\* answered with an error reply whose success is false, and no shared state
\* changes
C16_UnknownKindRejected ==
  [][/\ request.type \notin Kinds
     /\ gpc # "idle"
     /\ netVars' # netVars
     => /\ reply'.kind = "error"
        /\ ~reply'.success
        /\ gpc' = "idle"
        /\ stateVars' = stateVars]_vars

\* a request of an unknown kind that names panel 0 and carries a power
\* state and a Message was the first request and got the error reply
C16_ErrorReplied ==
  /\ gpc = "idle"
  /\ budget = GateRequests - 1
  /\ reply.kind = "error"
  /\ ~reply.success
  /\ \A p \in Panels :
       PanelState(p) = <<DefaultConfig, NoneMsg, DefaultUpdateData>>

----------------------------------------------------------------------------
(* Properties of the validation of requests, checked under BadSpec *)

\* the request carries a value no setter accepts, or a sequence that holds
\* a sequence or an item without duration
Invalid(req) ==
  \/ /\ req.type = "control"
     /\ \E i \in 1..Len(req.pairs) :
          /\ req.pairs[i][1] \in ConfigKeys
          /\ SetterByte(req.pairs[i][1], req.pairs[i][2]) = BadValue
  \/ /\ req.type = "data"
     /\ req.msg.type = "sequence"
     /\ \E i \in 1..Len(req.msg.items) :
          \/ req.msg.items[i].type = "sequence"
          \/ req.msg.items[i].duration = NoneInt

\* C17: the handler of an invalid control or data request changes no shared
\* state and ends with an error reply
C17_InvalidRejected ==
  [][/\ Invalid(request)
     /\ gpc # "idle"
     /\ netVars' # netVars
     => /\ stateVars' = stateVars
        /\ gpc' = "idle" => reply'.kind = "error" /\ ~reply'.success]_vars

----------------------------------------------------------------------------
(* Properties of the connections, checked under ConnSpec *)

\* the peer sent a malformed length, a truncated payload or invalid JSON
Malformed(c) ==
  c.wire \in {"badprefix", "padded", "nopayload", "short", "badjson"}

\* C18: the listener is never left waiting in a read of a connection that
\* delivered a truncated message (it goes on to the next connection)
C18_ListenerGoesOn ==
  ~(gpc = "recv" /\ Malformed(conn) /\ ReadBlocks(conn))

\* what holds of the malformed connections that end: no state change, no
\* reply, the listener back at accept
C18_MalformedDropped ==
  [][/\ gpc = "recv"
     /\ conn.wire \in {"badprefix", "nopayload", "short", "badjson"}
     /\ netVars' # netVars
     => /\ gpc' = "idle"
        /\ reply' = NoReply
        /\ stateVars' = stateVars]_vars

\* C19: handling a connection from an address outside the allow-list
\* changes no shared state and sends no reply; once its input is read, the
\* drain ends and the connection is closed
C19_RejectedDrainedAndClosed ==
  [][/\ gpc = "drain"
     /\ netVars' # netVars
     => /\ stateVars' = stateVars
        /\ reply' = NoReply
        /\ request' = request
        /\ ~conn.unread => gpc' = "idle" /\ ~conn'.open]_vars

\* what holds of every rejected connection: no state change, no reply,
\* nothing parsed
C19_RejectedIgnored ==
  [][/\ gpc = "drain"
     /\ netVars' # netVars
     => /\ stateVars' = stateVars
        /\ reply' = NoReply
        /\ request' = request]_vars

----------------------------------------------------------------------------
(* Properties of MatrixClient.build_sequence_message, checked under BuildSpec *)

\* the list the client passed holds a sequence; holds an item without
\* duration
Nests(sequence) ==
  \E i \in 1..Len(sequence) : sequence[i].type = "sequence"
LacksDuration(sequence) ==
  \E i \in 1..Len(sequence) : sequence[i].duration = NoneInt

\* the call returned a sequence of the items passed, each with its own
\* duration when it had one and with the default otherwise
BuiltWithDurations ==
  /\ ~client.raised
  /\ client.message.type = "sequence"
  /\ Len(client.message.items) = Len(client.given)
  /\ \A i \in 1..Len(client.given) :
       /\ client.message.items[i].duration # NoneInt
       /\ client.message.items[i] =
            [client.given[i] EXCEPT !.duration =
               IF @ = NoneInt THEN client.duration ELSE @]

\* C20: build_sequence_message raises when an item is a sequence and when an
\* item has no duration and no default was passed; otherwise it returns the
\* sequence in which every item has a duration, its own or else the default
C20_BuildSequence ==
  client.called =>
    IF \/ Nests(client.given)
       \/ LacksDuration(client.given) /\ client.duration = NoneInt
    THEN client.raised
    ELSE BuiltWithDurations

\* the same where no duration, the default included, is 0
C20_BuildSequenceNonZero ==
  /\ client.called
  /\ client.duration # 0
  /\ \A i \in 1..Len(client.given) : client.given[i].duration # 0
  => IF \/ Nests(client.given)
        \/ LacksDuration(client.given) /\ client.duration = NoneInt
     THEN client.raised
     ELSE BuiltWithDurations

----------------------------------------------------------------------------
(* Properties of the stored Message and Bitmap, checked under KeepSpec *)

\* a step of the control thread or of the link leaves the content of every
\* stored Message as it is
MessagesKept ==
  netVars' = netVars
    => \A p \in Panels :
         Content(CURRENT_MESSAGE'[p]) = Content(CURRENT_MESSAGE[p])

\* a step that changes a stored Bitmap is no step of the network thread
BitmapsOfLoop == CURRENT_BITMAP' # CURRENT_BITMAP => netVars' = netVars

\* C21: the content of a stored Message changes only in steps of the network
\* thread (so that query-message returns what was submitted), and a stored
\* Bitmap changes only in steps of the control loop
C21_MessageOfNetworkBitmapOfLoop ==
  [][MessagesKept /\ BitmapsOfLoop]_vars

\* the part about the Bitmap alone
C21_BitmapOfLoop == [][BitmapsOfLoop]_vars

\* query-message has returned the grid widened to the panel's width for a
\* Message submitted with a grid of 8 columns
C21_QueryReturnsAligned ==
  /\ reply.kind = "message"
  /\ Len(reply.body) = 1
  /\ reply.body[1][2].type = "bitmap"
  /\ Len(reply.body[1][2].data.bitmap[1]) = num_blocks * 8

----------------------------------------------------------------------------
(* Properties of the setters, checked under SetSpec *)

\* the names of the five parameters in the order of their integers
Enumeration(key) ==
  CASE key = "display_mode" -> <<"static", "scroll", "auto">>
    [] key = "scroll_direction" -> <<"left", "right">>
    [] key = "scroll_mode" ->
         <<"repeat-on-end", "repeat-on-disappearance", "repeat-after-gap">>
    [] key = "power_state" -> <<"off", "on">>
    [] key = "stop_indicator" -> <<"off", "on">>
    [] OTHER -> <<>>

\* the setter was called with the name of integer n of its parameter and
\* handed the byte n to the link, as it does when called with n
NameAsInteger ==
  \A i \in 1..Len(Enumeration(client.key)) :
    client.value = PyStr(Enumeration(client.key)[i])
      => /\ client.byte = i - 1
         /\ client.byte =
              IF client.revision = "legacy"
              THEN SetterByte(client.key, PyInt(i - 1))
              ELSE AnnaxSetterByte(client.key, PyInt(i - 1))

\* C22: a setter of display mode, scroll direction, scroll mode, power state
\* or stop indicator called with a symbolic name transmits the value byte it
\* transmits for the corresponding integer
C22_NameAsInteger == client.called => NameAsInteger

\* the same for the setters of python/matrix_controller.py alone
C22_LegacyNameAsInteger ==
  client.called /\ client.revision = "legacy" => NameAsInteger

----------------------------------------------------------------------------
(* Properties of MatrixGraphics, checked under GfxSpec *)

\* align_long_bitmap has returned for a list given narrower, wider
WasNarrower == Len(client.given[1]) < client.target_width
WasWider == Len(client.given[1]) > client.target_width

\* C23: for the alignments left, center and right, every row of the grid
\* align_long_bitmap returns has exactly target_width columns
C23_AlignedToTargetWidth ==
  client.calls >= 1 /\ client.align \in {"left", "center", "right"}
    => \A y \in 1..Len(client.once) :
         Len(client.once[y]) = client.target_width

\* the same without center alignment of a grid wider than the target
C23_AlignedUnlessCenterCrop ==
  /\ client.calls >= 1
  /\ client.align \in {"left", "center", "right"}
  /\ ~(client.align = "center" /\ WasWider)
  => \A y \in 1..Len(client.once) :
       Len(client.once[y]) = client.target_width

\* C24: aligning the aligned grid again returns it unchanged
C24_AlignIdempotent ==
  client.calls = 2 => client.grid = client.once

\* the same without center alignment of a grid wider than the target
C24_IdempotentUnlessCenterCrop ==
  client.calls = 2 /\ ~(client.align = "center" /\ WasWider)
    => client.grid = client.once

\* C25: center alignment of a grid narrower than the target by an odd number
\* d of columns puts d \div 2 zero columns before and (d \div 2) + 1 zero
\* columns after the columns of each row
C25_CenterOddPadsRight ==
  LET d == client.target_width - Len(client.given[1])
  IN  client.calls >= 1 /\ client.align = "center" /\ WasNarrower /\ d % 2 = 1
        => /\ Len(client.once) = Len(client.given)
           /\ \A y \in 1..Len(client.given) :
                client.once[y] =
                  Zeros(d \div 2) \o client.given[y] \o Zeros((d \div 2) + 1)

\* a row of 5 columns has been centered in 8 columns: one zero column
\* before, two after
C25_FiveInEight ==
  /\ client.calls = 1
  /\ client.align = "center"
  /\ client.target_width = 8
  /\ client.given = PatternGrid("ones", 5, 1)
  /\ client.once = << <<0, 1, 1, 1, 1, 1, 0, 0>> >>

\* long_bitmap_to_short_bitmap has packed a grid
HasPacked == client.packed_from # NoneBitmap

\* the grid read back from blocks of row bytes: pixel x of row y is bit
\* (x - 1) % 8, counted from the most significant, of byte y of block
\* (x - 1) \div 8 + 1
Unpack(blocks) ==
  [y \in 1..Len(blocks[1]) |->
     [x \in 1..(8 * Len(blocks)) |->
        (blocks[((x - 1) \div 8) + 1][y] \div (2 ^ (7 - ((x - 1) % 8)))) % 2]]

\* a grid with every row filled up with zeros to a multiple of 8 pixels
PadToBytes(grid) ==
  [y \in 1..Len(grid) |-> grid[y] \o Zeros((8 - (Len(grid[y]) % 8)) % 8)]

\* the blocks of every sample grid
PackedSamples == [g \in SampleGrids |-> long_bitmap_to_short_bitmap(g)]

\* C26 (as stated): no sample grid of a height that is a multiple of 8,
\* other than the grid packed, packs to the same blocks
C26_LosslessAtHeightMultipleOf8 ==
  HasPacked /\ Len(client.packed_from) % 8 = 0
    => \A g \in SampleGrids :
         Len(g) % 8 = 0 /\ PackedSamples[g] = client.packed
           => g = client.packed_from

\* C26 (amended): the blocks unpack to the grid with every row filled up
\* with zero pixels to a multiple of 8, hence to the grid itself when its
\* width is a multiple of 8, whatever its height
C26_LosslessAtWidthMultipleOf8 ==
  HasPacked
    => /\ Unpack(client.packed) = PadToBytes(client.packed_from)
       /\ Len(client.packed_from[1]) % 8 = 0
            => Unpack(client.packed) = client.packed_from

\* a grid of 16 columns and 8 rows has been packed into 2 blocks
C26_SixteenColumnsPacked ==
  /\ client.packed_from = PatternGrid("first", 16, 8)
  /\ client.packed = << <<128, 170, 128, 170, 128, 170, 128, 170>>,
                        <<0, 170, 0, 170, 0, 170, 0, 170>> >>

\* pixel x of row y, 0 outside the grid
Pixel(grid, y, x) ==
  IF y <= Len(grid) /\ x <= Len(grid[1]) THEN grid[y][x] ELSE 0

\* 8 pixels of row y from column x on, the first the most significant
HorizontalByte(grid, y, x) ==
    128 * Pixel(grid, y, x) + 64 * Pixel(grid, y, x + 1)
  + 32 * Pixel(grid, y, x + 2) + 16 * Pixel(grid, y, x + 3)
  + 8 * Pixel(grid, y, x + 4) + 4 * Pixel(grid, y, x + 5)
  + 2 * Pixel(grid, y, x + 6) + Pixel(grid, y, x + 7)

\* 8 pixels of column x from row y on, the first the most significant
VerticalByte(grid, y, x) ==
    128 * Pixel(grid, y, x) + 64 * Pixel(grid, y + 1, x)
  + 32 * Pixel(grid, y + 2, x) + 16 * Pixel(grid, y + 3, x)
  + 8 * Pixel(grid, y + 4, x) + 4 * Pixel(grid, y + 5, x)
  + 2 * Pixel(grid, y + 6, x) + Pixel(grid, y + 7, x)

\* C27 (as stated): every byte of the blocks encodes 8 vertically adjacent
\* pixels of one column of the grid, most significant bit first
C27_BytesAreColumns ==
  HasPacked
    => \A b \in 1..Len(client.packed) :
         \A j \in 1..Len(client.packed[b]) :
           \E x \in 1..Len(client.packed_from[1]) :
             \E r \in 0..((Len(client.packed_from) - 1) \div 8) :
               client.packed[b][j] =
                 VerticalByte(client.packed_from, 8 * r + 1, x)

\* C27 (amended): there is one block per group of 8 columns, block b holds
\* one byte per row, and byte y of block b encodes the 8 horizontally
\* adjacent pixels of row y from column 8 * (b - 1) + 1 on, most significant
\* bit first, with zero bits for the columns beyond the width
C27_BytesAreRowChunks ==
  HasPacked
    => /\ Len(client.packed) = (Len(client.packed_from[1]) + 7) \div 8
       /\ \A b \in 1..Len(client.packed) :
            /\ Len(client.packed[b]) = Len(client.packed_from)
            /\ \A y \in 1..Len(client.packed_from) :
                 client.packed[b][y] =
                   HorizontalByte(client.packed_from, y, 8 * (b - 1) + 1)

\* a row of 9 lit pixels has been packed: a full byte and a padded one
C27_NinePixelsPacked ==
  /\ client.packed_from = PatternGrid("ones", 9, 1)
  /\ client.packed = << <<255>>, <<128>> >>

----------------------------------------------------------------------------
(* Shutdown, checked under StopSpec *)

\* the listener waits in a recv of receive_message that does not return
BlockedRead == gpc = "recv" /\ ReadBlocks(conn)

\* C28: once stop() has cleared the flag, the control loop leaves its loop
\* and the listener leaves its loop and closes the listening socket, unless
\* the listener waits in a read that never returns
C28_StopEndsBothLoops ==
  ~running ~> ((pc = "stopped" /\ gpc = "closed") \/ BlockedRead)

\* once stop() has cleared the flag the control loop leaves its loop
C28_ControlLoopEnds == ~running ~> pc = "stopped"

\* the listener leaves only with the flag cleared, and from the head of
\* its loop
C28_ListenerEndsOnFlag ==
  [][gpc' = "closed" /\ gpc # "closed" => ~running /\ gpc = "idle"]_vars

----------------------------------------------------------------------------
(* ConfigSync and the redraw decision *)

\* the number of set_parameter calls this tick has made for a key of the
\* panel the loop is at
Applications(key) ==
  Cardinality({i \in 1..Len(tick_log) :
                 /\ tick_log[i].kind = "param"
                 /\ tick_log[i].display = display
                 /\ tick_log[i].key = key})

\* the number of entries of a key in a pending list
Entries_of(keys, key) == Cardinality({i \in 1..Len(keys) : keys[i] = key})

\* C29: when ConfigSync of a panel ends (line 251), no key has been applied
\* more than once in this step, and the pending list is empty afterwards
C29_PendingAppliedOnce ==
  [][(pc = "clear" /\ pc' = "idle")
       => /\ \A key \in ConfigKeys : Applications(key) <= 1
          /\ UPDATE_DATA'[display].config_keys_changed = <<>>]_vars

\* when ConfigSync of a panel ends, a key has been applied at most as often
\* as the pending list names it, and the list is empty afterwards
C29_AppliedOncePerEntry ==
  [][(pc = "clear" /\ pc' = "idle")
       => /\ \A key \in ConfigKeys :
               Applications(key)
                 <= Entries_of(UPDATE_DATA[display].config_keys_changed, key)
          /\ UPDATE_DATA'[display].config_keys_changed = <<>>]_vars

\* the Message of a panel is a Bitmap message drawn as it is (not blended)
StaticBitmap(d) ==
  /\ CURRENT_MESSAGE[d].type = "bitmap"
  /\ CURRENT_MESSAGE[d].data.bitmap # NoneBitmap
  /\ ~CURRENT_MESSAGE[d].data.blend_bitmap

\* C30: a static Bitmap message is pushed once per replacement: on a panel
\* that is powered on, once the mark of the stored Message is cleared, the
\* panel's current Bitmap is the grid of that Message
C30_StaticPushedPerReplacement ==
  \A d \in Panels :
    (/\ CURRENT_CONFIG[d]["power_state"] = PyStr("on")
     /\ StaticBitmap(d)
     /\ MarkIsOfStoredMessage(d)
     /\ ~UPDATE_DATA[d].message_changed)
      => CURRENT_BITMAP[d] = CURRENT_MESSAGE[d].data.bitmap

\* this step calls set_bitmap
Pushes ==
  /\ Len(tick_log') = Len(tick_log) + 1
  /\ tick_log'[Len(tick_log')].kind = "bitmap"

\* a static Bitmap or literal Text message is pushed only in a pass that
\* finds the mark set: never again on later ticks
C30_StaticPushedOnlyWhenMarked ==
  [][(/\ Pushes
      /\ message.type \in {"bitmap", "text"}
      /\ ~message.data.parse_time_string)
       => UPDATE_DATA[display].message_changed]_vars

----------------------------------------------------------------------------
(* The schedule of a Sequence, checked under AdvSpec *)

\* lines 257-287 for a Sequence, as the claim states them: a pass that
\* enters starts from cursor 0 and the time of the tick; the cursor moves by
\* one, modulo the length, and the switch time becomes the time of the tick
\* when the duration of the item at the cursor has elapsed; otherwise both
\* stay
ScheduleStep ==
  LET ud == UPDATE_DATA[display]
      n == Len(message.items)
      pos == IF ud.message_changed THEN 0 ELSE ud.sequence_cur_pos
      since == IF ud.message_changed THEN now ELSE ud.sequence_last_switched
      valid == /\ pos \in 0..(n - 1)
               /\ since # NoneInt
               /\ message.items[pos + 1].duration # NoneInt
      elapsed == valid /\ now - since >= message.items[pos + 1].duration
  IN  /\ UPDATE_DATA'[display].sequence_cur_pos =
           (IF elapsed THEN (pos + 1) % n ELSE pos)
      /\ UPDATE_DATA'[display].sequence_last_switched =
           (IF elapsed THEN now ELSE since)

\* the control thread takes the step of lines 257-287
EntersOrAdvances == pc = "entry" /\ pc' # "entry"

\* no panel's cursor or switch time changes
ScheduleKept ==
  \A p \in Panels :
    /\ UPDATE_DATA'[p].sequence_cur_pos = UPDATE_DATA[p].sequence_cur_pos
    /\ UPDATE_DATA'[p].sequence_last_switched =
         UPDATE_DATA[p].sequence_last_switched

----------------------------------------------------------------------------
(* ConfigOverrideSync, checked under OneSpec *)

\* the override value recorded for a key when ConfigOverrideSync began
WasRecorded(k, value) == k \in DOMAIN sync_from /\ sync_from[k] = value

\* ConfigOverrideSync has run in this pass and is through
SyncDone == pc = "done" /\ sync_from # NoSync

\* after ConfigOverrideSync every override of the effective item is
\* recorded, and those that differed from the recorded value have been sent
OverridesApplied ==
  SyncDone
    => \A k \in DOMAIN actual_message.config :
         /\ k \in DOMAIN UPDATE_DATA[display].config_specific
         /\ UPDATE_DATA[display].config_specific[k] = actual_message.config[k]
         /\ ~WasRecorded(k, actual_message.config[k])
              => ParamSent(display, k,
                           SetterByte(k, actual_message.config[k]))

\* ConfigOverrideSync sends or resets only in a pass that enters a Message
\* or advances a Sequence
SyncOnlyOnChange ==
  pc \in {"ovr", "ovr_wait"}
    => sequence_needs_switching \/ UPDATE_DATA[display].message_changed

\* the set_config calls ConfigOverrideSync plans never repeat an override
\* whose value is the recorded one
NotResent ==
  (pc = "override" /\ pc' # "override")
    => \A i \in 1..Len(todo') :
         todo'[i].op = "apply"
           => ~(/\ todo'[i].key \in DOMAIN UPDATE_DATA[display].config_specific
                /\ UPDATE_DATA[display].config_specific[todo'[i].key]
                     = todo'[i].value)

\* every set_parameter of the passes' later part is one ConfigOverrideSync
\* planned
OnlyPlanned ==
  (pc \in {"override", "ovr", "ovr_wait", "done"} /\ tick_log' # tick_log)
    => /\ pc = "ovr"
       /\ tick_log'[Len(tick_log')].kind = "param"
       /\ tick_log'[Len(tick_log')].key = Head(todo).key

\* C32: in a pass that enters a Message or advances a Sequence every
\* override of the new effective item that differs from the recorded value
\* is sent and recorded, an override equal to the recorded value is not sent
\* again, and a pass that neither enters nor advances sends and resets no
\* override
C32_OverrideSync ==
  /\ [](OverridesApplied /\ SyncOnlyOnChange)
  /\ [][NotResent /\ OnlyPlanned]_vars

\* a Message overriding scroll_speed with 5 has been entered while that
\* override was in effect: nothing has been sent for scroll_speed
C32_SameSpeedNotResent ==
  /\ SyncDone
  /\ WasRecorded("scroll_speed", PyInt(5))
  /\ "scroll_speed" \in DOMAIN actual_message.config
  /\ actual_message.config["scroll_speed"] = PyInt(5)
  /\ \A i \in 1..Len(tick_log) : tick_log[i].key # "scroll_speed"

----------------------------------------------------------------------------
(* Overrides and the baseline Config, checked under BaseSpec *)

\* the set_parameter calls of this tick for key k of panel d
SentFor(d, k) ==
  {i \in 1..Len(tick_log) :
     /\ tick_log[i].kind = "param"
     /\ tick_log[i].display = d
     /\ tick_log[i].key = k}

\* the value this tick has set last for key k of panel d
LastSent(d, k) ==
  tick_log[CHOOSE i \in SentFor(d, k) : \A j \in SentFor(d, k) : j <= i].value

\* C33: at the end of a tick, for every key among the overrides in effect
\* on a panel, the value the tick has set last on the device for that key
\* (if it has set one) is the override value
C33_OverrideOutlastsBaseline ==
  pc = "sleep"
    => \A d \in Panels :
         \A k \in DOMAIN UPDATE_DATA[d].config_specific :
           SentFor(d, k) # {}
             => LastSent(d, k)
                  = SetterByte(k, UPDATE_DATA[d].config_specific[k])

----------------------------------------------------------------------------
(* The two controllers' set_parameter and the queue, checked under
   QueueSpec *)

\* the arguments of the call made last are a code in 1..15 and a value in
\* 0..255
InRange == client.code \in 1..15 /\ client.value \in 0..255

\* C34: set_parameter of either controller fails for a code outside 1..15
\* or a value outside 0..255 without queueing or transmitting anything; for
\* accepted arguments the queueing controller appends the message
\* (0xA0 + code, value) and the other one transmits a frame whose action
\* byte is 0xA0 + code, in 0xA1..0xAF, and whose last byte is the value
C34_SetParameterChecked ==
  /\ client.op \in {"set_parameter", "legacy_set_parameter"} /\ ~InRange
       => /\ client.outcome = "AssertionError"
          /\ client.pending = client.before
          /\ client.sent = <<>>
          /\ lpc = "idle"
  /\ client.op = "set_parameter" /\ InRange
       => /\ client.outcome = "queued"
          /\ client.pending =
               client.before \o << <<160 + client.code, client.value>> >>
          /\ client.pending[Len(client.pending)][1] \in 161..175
  /\ client.op = "legacy_set_parameter" /\ InRange
       => /\ client.outcome # "AssertionError"
          /\ client.pending = client.before
          /\ Len(client.sent) = 4
          /\ client.sent[2] = 160 + client.code
          /\ client.sent[2] \in 161..175
          /\ client.sent[4] = client.value

\* the queueing controller has been given the code 16 after it had queued
\* the code 15 with the value 255: the queue holds that one message
C34_SixteenRejected ==
  /\ client.op = "set_parameter"
  /\ client.code = 16
  /\ client.outcome = "AssertionError"
  /\ client.pending = << <<175, 255>> >>

\* what holds of a commit while it transmits and once it is over
CommitOutcome ==
  client.op = "commit"
    => /\ client.before = <<>> <=> client.outcome = "False"
       /\ client.outcome = "False"
            => client.pending = <<>> /\ client.sent = <<>> /\ lpc = "idle"
       /\ client.outcome \in {"sending", "MatrixError"}
            => client.pending = client.before
       /\ client.outcome = "sending" => datagram = client.sent
       /\ client.outcome = "True" => client.pending = <<>>
       /\ client.outcome # "False"
            => /\ client.sent[1] = 255
               /\ client.sent[2] = Len(client.before)
               /\ SubSeq(client.sent, 3, Len(client.sent))
                    = Flatten(client.before)

\* the step in which commit ends after its transmission: with the error of
\* a transmission that used every attempt and the queue kept, or with True
\* and the queue emptied
CommitEnds ==
  (client.op = "commit" /\ lpc = "ret" /\ lpc' = "idle")
    => IF raised # NoError
       THEN /\ writes = max_tries
            /\ client'.outcome = "MatrixError"
            /\ client'.pending = client.before
       ELSE /\ acked
            /\ client'.outcome = "True"
            /\ client'.pending = <<>>

\* C40: commit with an empty queue returns False and writes nothing; a
\* commit whose transmission fails after all attempts raises the error and
\* leaves the queue as it was; a commit that succeeds has sent all pending
\* messages in the order they were queued, in one datagram, and empties the
\* queue
C40_Commit == []CommitOutcome /\ [][CommitEnds]_vars

\* a parameter message and a bitmap message, queued in this order, have
\* been committed in one datagram
C40_TwoMessagesCommitted ==
  /\ client.op = "commit"
  /\ client.outcome = "True"
  /\ client.before = << <<161, 0>>, <<160, 1, 129, 66>> >>
  /\ client.sent = <<255, 2, 161, 0, 160, 1, 129, 66>>
  /\ client.pending = <<>>

----------------------------------------------------------------------------
(* Blending, checked under BlendSpec *)

\* the pass is at the redraw decision with a redraw due
RedrawStep ==
  /\ pc = "refresh"
  /\ pc' # "refresh"
  /\ NeedsRefresh(UPDATE_DATA[display], actual_message,
                  sequence_needs_switching, time_string_cur_result)

\* C35: a redraw of a blend-enabled item on a panel without a stored Bitmap
\* stores the aligned grid as the panel's current Bitmap and pushes it, and
\* the pass goes on
C35_BlendWithoutStoredBitmap ==
  [][(/\ RedrawStep
      /\ actual_message.data.blend_bitmap
      /\ CURRENT_BITMAP[display] = NoneBitmap)
       => /\ pc' = "render_wait"
          /\ CURRENT_BITMAP'[display] # NoneBitmap
          /\ Pushes]_vars

\* a redraw of a blend-enabled item on a panel that has a stored Bitmap of
\* the same height stores the blended grid and pushes it
C35_BlendWithStoredBitmap ==
  [][(/\ RedrawStep
      /\ actual_message.type = "bitmap"
      /\ actual_message.data.blend_bitmap
      /\ CURRENT_BITMAP[display] # NoneBitmap)
       => /\ pc' = "render_wait"
          /\ CURRENT_BITMAP'[display] =
               blend_long_bitmaps(CURRENT_BITMAP[display],
                                  actual_message.data.bitmap)
          /\ Pushes]_vars

----------------------------------------------------------------------------
(* The schedule of a replaced Message, checked under AdvSpec *)

\* the cursor lines 274-276 use for the Sequence the pass has read: 0 when
\* the pass enters it, the stored cursor otherwise
CursorUsed ==
  IF UPDATE_DATA[display].message_changed THEN 0
  ELSE UPDATE_DATA[display].sequence_cur_pos

\* C36: whenever the loop takes a Sequence it has read through lines
\* 257-287, the cursor it uses is set and below the length of that Sequence
C36_CursorOfThisSequence ==
  [][(EntersOrAdvances /\ message.type = "sequence")
       => /\ CursorUsed # NoneInt
          /\ CursorUsed \in 0..(Len(message.items) - 1)]_vars

\* the bitmap push of this pass has failed: set_bitmap raises MatrixError
PushFailed == pc = "render_wait" /\ lpc = "ret" /\ raised # NoError

\* a pass of the panel starting now would find a redraw due: the mark is
\* set, or the time string differs from the one rendered last, or the
\* duration of the item at the cursor has elapsed
StillDue ==
  LET ud == UPDATE_DATA[display]
  IN  \/ ud.message_changed
      \/ /\ actual_message.type = "text"
         /\ actual_message.data.parse_time_string
         /\ strftime(actual_message.data.text, clock)
              # ud.time_string_last_result
      \/ /\ message.type = "sequence"
         /\ ud.sequence_cur_pos \in 0..(Len(message.items) - 1)
         /\ ud.sequence_last_switched # NoneInt
         /\ clock - ud.sequence_last_switched
              >= message.items[ud.sequence_cur_pos + 1].duration

\* C37: when the bitmap push of a due redraw has failed, the redraw is
\* still due
C37_FailedPushStaysDue == PushFailed => StillDue

\* when the bitmap push has failed in a pass that found the mark set, the
\* mark is still set
C37_FailedPushKeepsMark ==
  (PushFailed /\ ~sequence_needs_switching
     /\ ~(actual_message.type = "text" /\ actual_message.data.parse_time_string))
    => UPDATE_DATA[display].message_changed

\* set_bitmap is at its call of send_long_bitmap: a push attempt
PushAttempt == pc = "refresh" /\ pc' = "render_wait"

\* C38: the stored Bitmap of a panel is the grid of the most recent push
\* attempt for that panel: every push attempt stores the grid it transmits,
\* and the stored Bitmap of a panel changes in no other step
C38_StoredIsLastPushed ==
  [][/\ PushAttempt
          => datagram' = send_bitmap(long_bitmap_to_short_bitmap(
                                       CURRENT_BITMAP'[display]))
     /\ \A p \in Panels :
          CURRENT_BITMAP'[p] # CURRENT_BITMAP[p]
            => PushAttempt /\ display = p]_vars

\* every push attempt stores the grid it transmits for the panel at hand
C38_AttemptStores ==
  [][PushAttempt
       => datagram' = send_bitmap(long_bitmap_to_short_bitmap(
                                    CURRENT_BITMAP'[display]))]_vars

\* the displays list of the request holds an index that is no panel number
OutOfRange(req) ==
  \E i \in 1..Len(req.displays) : req.displays[i] \notin Panels

\* C39: no step of the handler of a control or data request whose displays
\* list holds an index that is no panel number changes the Config, Message
\* or ScheduleState of any panel
C39_OutOfRangeChangesNothing ==
  [][(/\ (HandlerStep("control") \/ HandlerStep("data"))
      /\ OutOfRange(request))
       => \A p \in Panels : PanelState(p)' = PanelState(p)]_vars

\* the handler of such a request changes nothing from the index that is
\* beyond the last panel on: panels named after it keep their state
C39_NothingAfterBadIndex ==
  [][(/\ (HandlerStep("control") \/ HandlerStep("data"))
      /\ \E i \in 1..Len(request.displays) :
           i <= gpos /\ ~ValidIndex(request.displays[i]))
       => \A p \in Panels : PanelState(p)' = PanelState(p)]_vars

====
